---------------------------- MODULE Spec2Model ----------------------------
(***************************************************************************)
(* A model of abot (src/main.py): the instruction codec guac_msg /         *)
(* unguac_msg, the key-macro compiler parse_guac_keys, the three memo      *)
(* dictionaries of GUAC_CACHE, the commands that change CONFIG["keys"],    *)
(* the keys command, and the session: the loop of main(), the chat handler *)
(* with its authentication gate, and the log and die commands.             *)
(*                                                                         *)
(* A Python str is a sequence of one-character strings, a dict is a        *)
(* function with a finite domain (<<>> is the empty dict), a list or a     *)
(* tuple is a sequence.  Indices into a str keep Python's 0-based values;  *)
(* At(s, i) reads s[i].                                                    *)
(*                                                                         *)
(* What a call does is an outcome record:                                  *)
(*   kind "ok"    the call returned the value val                          *)
(*   kind "err"   parse_guac_keys returned the str msg                     *)
(*   kind "none"  unguac_msg returned None                                 *)
(*   kind "raise" the call raised the exception named msg                  *)
(*   kind "tuple" cmd_keys returned the tuple val of strs                  *)
(***************************************************************************)
EXTENDS Integers, Sequences, FiniteSets, TLC

Ok(v) == [kind |-> "ok", val |-> v, msg |-> <<>>]
Err(m) == [kind |-> "err", val |-> <<>>, msg |-> m]
None == [kind |-> "none", val |-> <<>>, msg |-> <<>>]
Raise(e) == [kind |-> "raise", val |-> <<>>, msg |-> e]

-----------------------------------------------------------------------------
(* Strings *)

At(s, i) == s[i + 1]

DecimalDigits == <<"0", "1", "2", "3", "4", "5", "6", "7", "8", "9">>

\* str.isdecimal / str.isnumeric / str.isdigit of one character of the alphabet
isdecimal(c) == \E d \in 1..10 : DecimalDigits[d] = c

DigitValue(c) == (CHOOSE d \in 1..10 : DecimalDigits[d] = c) - 1

AllDecimal(s) == \A i \in 1..Len(s) : isdecimal(s[i])

\* repr(s) of a str of printable ASCII characters: in single quotes, or in double
\* quotes when s has a single quote and no double one; backslashes are doubled
Repr(s) ==
    LET q == IF (\E i \in 1..Len(s) : s[i] = "'") /\ ~(\E i \in 1..Len(s) : s[i] = "\"")
             THEN "\"" ELSE "'"
        RECURSIVE Escaped(_)
        Escaped(t) ==
            IF t = <<>> THEN <<>>
            ELSE (IF t[1] = "\\" \/ t[1] = q THEN <<"\\", t[1]>> ELSE <<t[1]>>) \o Escaped(Tail(t))
    IN <<q>> \o Escaped(s) \o <<q>>

\* the value of a non-empty run of decimal digits
RECURSIVE DigitsValue(_)
DigitsValue(s) ==
    IF Len(s) = 0 THEN 0
    ELSE 10 * DigitsValue(SubSeq(s, 1, Len(s) - 1)) + DigitValue(s[Len(s)])

\* str(n) / f"{n}" of a natural number
RECURSIVE StrOfNat(_)
StrOfNat(n) ==
    IF n < 10 THEN <<DecimalDigits[n + 1]>>
    ELSE StrOfNat(n \div 10) \o <<DecimalDigits[(n % 10) + 1]>>

\* str(n) of an int
str(n) == IF n < 0 THEN <<"-">> \o StrOfNat(0 - n) ELSE StrOfNat(n)

\* s.strip() where the only whitespace is the blank
RECURSIVE Strip(_)
Strip(s) ==
    IF Len(s) = 0 THEN s
    ELSE IF s[1] = " " THEN Strip(Tail(s))
    ELSE IF s[Len(s)] = " " THEN Strip(SubSeq(s, 1, Len(s) - 1))
    ELSE s

\* int(s): blanks around an optional sign and decimal digits; anything else
\* raises ValueError
IntOk(s) ==
    LET t == Strip(s)
    IN \/ Len(t) >= 1 /\ AllDecimal(t)
       \/ Len(t) >= 2 /\ t[1] \in {"-", "+"} /\ AllDecimal(Tail(t))

IntValue(s) ==
    LET t == Strip(s)
    IN IF t[1] = "-" THEN 0 - DigitsValue(Tail(t))
       ELSE IF t[1] = "+" THEN DigitsValue(Tail(t))
       ELSE DigitsValue(t)

\* s.split(":")
RECURSIVE SplitColon(_)
SplitColon(s) ==
    IF \A i \in 1..Len(s) : s[i] # ":" THEN <<s>>
    ELSE LET p == CHOOSE i \in 1..Len(s) : s[i] = ":" /\ \A j \in 1..(i - 1) : s[j] # ":"
         IN <<SubSeq(s, 1, p - 1)>> \o SplitColon(SubSeq(s, p + 1, Len(s)))

\* sep.join(parts)
RECURSIVE Join(_, _)
Join(sep, parts) ==
    IF Len(parts) = 0 THEN <<>>
    ELSE IF Len(parts) = 1 THEN parts[1]
    ELSE parts[1] \o sep \o Join(sep, Tail(parts))

\* a dict after d[k] = v
Put(d, k, v) == [x \in DOMAIN d \cup {k} |-> IF x = k THEN v ELSE d[x]]

EmptyDict == <<>>

DictSize(d) == Cardinality(DOMAIN d)

-----------------------------------------------------------------------------
(* guac_msg: the encoder *)

\* `args in GUAC_CACHE`: the test is made on the outer dict, whose keys are the
\* three strs "guac", "unguac", "guac-keys"; args is a tuple, never equal to a str
InGuacCacheKeys(args) == FALSE

\* a format that ends every field with ","
GuacFormatCommaEach(args) ==
    Join(<<>>, [i \in 1..Len(args) |-> StrOfNat(Len(args[i])) \o <<".">> \o args[i] \o <<",">>])
        \o <<";">>

\* f"{','.join(f'{len(arg)}.{arg}' for arg in args)};"
GuacFormat(args) ==
    Join(<<",">>, [i \in 1..Len(args) |-> StrOfNat(Len(args[i])) \o <<".">> \o args[i]]) \o <<";">>

\* an encoder that clears its dict already when it holds max-cache entries
guac_msgClearAtMax(args, cache, maxcache) ==
    LET swept == IF DictSize(cache) >= maxcache THEN EmptyDict ELSE cache
    IN [out |-> Ok(GuacFormat(args)), cache |-> Put(swept, args, GuacFormat(args)),
        swept |-> swept, computed |-> TRUE]

\* the call guac_msg(*args) on the dict cache = GUAC_CACHE["guac"]:
\* out: what it returns, cache: the dict afterwards, swept: the dict after the
\* size test, computed: whether line 475 ran
guac_msg(args, cache, maxcache) ==
    LET clear == DictSize(cache) > maxcache
        swept == IF clear THEN EmptyDict ELSE cache
    IN IF ~clear /\ InGuacCacheKeys(args)
       THEN [out |-> Ok(cache[args]), cache |-> cache, swept |-> swept, computed |-> FALSE]
       ELSE LET Store(msg) == [out |-> Ok(msg), cache |-> Put(swept, args, msg),
                               swept |-> swept, computed |-> TRUE]
            IN CHOOSE r \in {Store(msg) : msg \in {GuacFormat(args)}} : TRUE

-----------------------------------------------------------------------------
(* unguac_msg: the decoder *)

\* a digit loop that reads one digit only
DigitRunEndOne(chars, idx) ==
    IF idx < Len(chars) /\ isdecimal(At(chars, idx)) THEN idx + 1 ELSE idx

\* the `while chars[idx].isdecimal()` loop: the index it stops at, or
\* Len(chars) when it runs off the end (chars[idx] raises IndexError there)
RECURSIVE DigitRunEnd(_, _)
DigitRunEnd(chars, idx) ==
    IF idx >= Len(chars) THEN idx
    ELSE IF isdecimal(At(chars, idx)) THEN DigitRunEnd(chars, idx + 1)
    ELSE idx

\* the loop of a decoder that takes ";" as the end only at the end of the string
RECURSIVE UnguacLoopToEnd(_, _, _)
UnguacLoopToEnd(chars, idx0, result) ==
    LET n == Len(chars)
        idx1 == DigitRunEnd(chars, idx0)
        dist_str == SubSeq(chars, idx0 + 1, idx1)
        idx2 == IF idx1 >= 1 THEN idx1 - 1 ELSE idx1
        distance == DigitsValue(dist_str)
        idx3 == idx2 + 1
        idx4 == idx3 + 1
        addition == SubSeq(chars, idx4 + 1, idx4 + distance)
        idx5 == idx4 + distance
    IN IF idx1 >= n THEN Raise("IndexError")
       ELSE IF Len(dist_str) = 0 THEN None
       ELSE IF idx3 >= n THEN Raise("IndexError")
       ELSE IF At(chars, idx3) # "." THEN None
       ELSE IF idx4 + distance > n THEN Raise("IndexError")
       ELSE IF idx5 >= n THEN None
       ELSE IF At(chars, idx5) = "," THEN UnguacLoopToEnd(chars, idx5 + 1, Append(result, addition))
       ELSE IF At(chars, idx5) = ";" /\ idx5 = n - 1 THEN Ok(Append(result, addition))
       ELSE None

\* one turn of the `while True` loop, from index idx with the fields read so far
RECURSIVE UnguacLoop(_, _, _)
UnguacLoop(chars, idx0, result) ==
    LET n == Len(chars)
        idx1 == DigitRunEnd(chars, idx0)
        dist_str == SubSeq(chars, idx0 + 1, idx1)
        idx2 == IF idx1 >= 1 THEN idx1 - 1 ELSE idx1
        distance == DigitsValue(dist_str)
        idx3 == idx2 + 1
        idx4 == idx3 + 1
        addition == SubSeq(chars, idx4 + 1, idx4 + distance)
        idx5 == idx4 + distance
    IN IF idx1 >= n THEN Raise("IndexError")
       ELSE IF Len(dist_str) = 0 THEN None
       ELSE IF idx3 >= n THEN Raise("IndexError")
       ELSE IF At(chars, idx3) # "." THEN None
       ELSE IF idx4 + distance > n THEN Raise("IndexError")
       ELSE IF idx5 >= n THEN None
       ELSE IF At(chars, idx5) = "," THEN UnguacLoop(chars, idx5 + 1, Append(result, addition))
       ELSE IF At(chars, idx5) = ";" THEN Ok(Append(result, addition))
       ELSE None

\* a decoder that stores what it has read also when the frame is refused
unguac_msgStoreAlways(msg, cache, maxcache) ==
    IF Len(msg) = 0
    THEN [out |-> Ok(<<>>), cache |-> cache, swept |-> cache, computed |-> FALSE]
    ELSE LET clear == DictSize(cache) > maxcache
             swept == IF clear THEN EmptyDict ELSE cache
             Store(r) == [out |-> r, cache |-> Put(swept, msg, r.val),
                          swept |-> swept, computed |-> TRUE]
         IN IF ~clear /\ msg \in DOMAIN cache
            THEN [out |-> Ok(cache[msg]), cache |-> cache, swept |-> swept, computed |-> FALSE]
            ELSE CHOOSE x \in {Store(r) : r \in {UnguacLoop(msg, 0, <<>>)}} : TRUE

\* a decoder that returns the empty list where the frame is refused
unguac_msgEmptyOnFailure(msg, cache, maxcache) ==
    IF Len(msg) = 0
    THEN [out |-> Ok(<<>>), cache |-> cache, swept |-> cache, computed |-> FALSE]
    ELSE LET clear == DictSize(cache) > maxcache
             swept == IF clear THEN EmptyDict ELSE cache
             Store(r) == [out |-> IF r.kind = "none" THEN Ok(<<>>) ELSE r,
                          cache |-> IF r.kind = "ok" THEN Put(swept, msg, r.val) ELSE swept,
                          swept |-> swept, computed |-> TRUE]
         IN IF ~clear /\ msg \in DOMAIN cache
            THEN [out |-> Ok(cache[msg]), cache |-> cache, swept |-> swept, computed |-> FALSE]
            ELSE CHOOSE x \in {Store(r) : r \in {UnguacLoop(msg, 0, <<>>)}} : TRUE

\* a decoder without the test of the empty str
unguac_msgNoEmptyTest(msg, cache, maxcache) ==
    LET clear == DictSize(cache) > maxcache
        swept == IF clear THEN EmptyDict ELSE cache
        Store(r) == [out |-> r,
                     cache |-> IF r.kind = "ok" THEN Put(swept, msg, r.val) ELSE swept,
                     swept |-> swept, computed |-> TRUE]
    IN IF ~clear /\ msg \in DOMAIN cache
       THEN [out |-> Ok(cache[msg]), cache |-> cache, swept |-> swept, computed |-> FALSE]
       ELSE CHOOSE x \in {Store(r) : r \in {UnguacLoop(msg, 0, <<>>)}} : TRUE

\* the call unguac_msg(msg) on the dict cache = GUAC_CACHE["unguac"]
unguac_msg(msg, cache, maxcache) ==
    IF Len(msg) = 0
    THEN [out |-> Ok(<<>>), cache |-> cache, swept |-> cache, computed |-> FALSE]
    ELSE LET clear == DictSize(cache) > maxcache
             swept == IF clear THEN EmptyDict ELSE cache
         IN IF ~clear /\ msg \in DOMAIN cache
            THEN [out |-> Ok(cache[msg]), cache |-> cache, swept |-> swept, computed |-> FALSE]
            ELSE LET Store(r) ==
                         [out |-> r,
                          cache |-> IF r.kind = "ok" THEN Put(swept, msg, r.val) ELSE swept,
                          swept |-> swept, computed |-> TRUE]
                 IN CHOOSE x \in {Store(r) : r \in {UnguacLoop(msg, 0, <<>>)}} : TRUE

-----------------------------------------------------------------------------
(* parse_guac_keys: the key-macro compiler *)

\* ord(c) for the characters the model's macros are written in
ord(c) ==
    CASE c = " " -> 32 [] c = "!" -> 33 [] c = "(" -> 40 [] c = ")" -> 41
      [] c = "+" -> 43 [] c = "-" -> 45 [] c = "0" -> 48 [] c = "1" -> 49
      [] c = "2" -> 50 [] c = "3" -> 51 [] c = "6" -> 54 [] c = "5" -> 53
      [] c = ":" -> 58 [] c = ";" -> 59 [] c = "<" -> 60 [] c = ">" -> 62
      [] c = "@" -> 64 [] c = "[" -> 91 [] c = "\\" -> 92 [] c = "]" -> 93
      [] c = "^" -> 94 [] c = "a" -> 97 [] c = "b" -> 98 [] c = "c" -> 99
      [] c = "d" -> 100 [] c = "n" -> 110 [] c = "x" -> 120 [] c = "y" -> 121
      [] c = "z" -> 122 [] c = "{" -> 123 [] c = "|" -> 124 [] c = "}" -> 125
      [] c = "~" -> 126

\* the key codes of guacamole_keysyms the program names (X11 keysyms)
UnshiftedKeyCodes == [CTRL |-> 65507]

KeyIdentifiers ==
    [ENTER |-> 65293, ESCAPE |-> 65307, ALT |-> 65513, BACKSPACE |-> 65288,
     WIN |-> 65515, SHIFT |-> 65505, TAB |-> 65289, NUM_LOCK |-> 65407,
     ARROW_LEFT |-> 65361, ARROW_UP |-> 65362, ARROW_RIGHT |-> 65363,
     ARROW_DOWN |-> 65364, F1 |-> 65470]

\* GUAC_KEYS_SPECIAL_MAPPING["escape"] and ["arrow"]
GUAC_KEYS_SPECIAL_MAPPING ==
    [escape |-> ("n" :> KeyIdentifiers.ENTER @@ "e" :> KeyIdentifiers.ESCAPE
                 @@ "c" :> UnshiftedKeyCodes.CTRL @@ "a" :> KeyIdentifiers.ALT
                 @@ "b" :> KeyIdentifiers.BACKSPACE @@ "w" :> KeyIdentifiers.WIN
                 @@ ")" :> 41 @@ "s" :> KeyIdentifiers.SHIFT
                 @@ "t" :> KeyIdentifiers.TAB @@ "l" :> KeyIdentifiers.NUM_LOCK),
     arrow |-> ("l" :> KeyIdentifiers.ARROW_LEFT @@ "u" :> KeyIdentifiers.ARROW_UP
                @@ "r" :> KeyIdentifiers.ARROW_RIGHT @@ "d" :> KeyIdentifiers.ARROW_DOWN)]

\* getattr(KeyIdentifiers, f"F{_f_key}", None): F1 .. F12, consecutive codes
HasFKey(f) == Len(f) >= 1 /\ AllDecimal(f) /\ f[1] # "0" /\ DigitsValue(f) \in 1..12

FKey(f) == KeyIdentifiers.F1 + DigitsValue(f) - 1

special_chars == {"@", "^", "\\", "~", "[", "(", "!", "{", "|", "<"}

\* check_inc_ip(msg): its parameter ip defaults to the value ip had when the
\* def statement ran, at the top of the loop turn, and no call passes another;
\* ip0 is that value.  TRUE when it returns msg.
check_inc_ip(ip0, max_ip) == ip0 + 1 > max_ip

\* the loops `while char != close: acc += char; ip += 1; check_inc_ip; char = keys[ip]`
\* of "@", "[" and "(", entered at ip with keys[ip] = char
RECURSIVE ScanTo(_, _, _, _, _)
ScanTo(keys, ip, ip0, close, msg) ==
    IF At(keys, ip) = close THEN [st |-> "found", ip |-> ip, out |-> None]
    ELSE IF check_inc_ip(ip0, Len(keys)) THEN [st |-> "ret", ip |-> ip, out |-> Err(msg)]
    ELSE IF ip + 1 >= Len(keys) THEN [st |-> "ret", ip |-> ip, out |-> Raise("IndexError")]
    ELSE ScanTo(keys, ip + 1, ip0, close, msg)

\* the loops of "{" and "<", which also test each character
RECURSIVE ScanNumbers(_, _, _, _, _, _, _)
ScanNumbers(keys, ip, ip0, hit, close, endmsg, badmsg) ==
    LET char == At(keys, ip)
        hit2 == hit \/ char = ":"
    IN IF char = close THEN [st |-> "found", ip |-> ip, out |-> None]
       ELSE IF ~isdecimal(char) /\ ip # ip0 /\ char # ":" /\ ~hit2
       THEN [st |-> "ret", ip |-> ip, out |-> Err(badmsg \o Repr(<<char>>))]
       ELSE IF check_inc_ip(ip0, Len(keys)) THEN [st |-> "ret", ip |-> ip, out |-> Err(endmsg)]
       ELSE IF ip + 1 >= Len(keys) THEN [st |-> "ret", ip |-> ip, out |-> Raise("IndexError")]
       ELSE ScanNumbers(keys, ip + 1, ip0, hit2, close, endmsg, badmsg)

\* the characters between the opener at ip0 and the closer at ip: acc[1:]
Between(keys, ip0, ip) == SubSeq(keys, ip0 + 2, ip)

\* body.split(":"), with 1 appended when there is one group only
Groups(body) ==
    LET g == SplitColon(body) IN IF Len(g) < 2 THEN Append(g, <<"1">>) ELSE g

GroupsOk(g) == \A i \in 1..Len(g) : IntOk(g[i])

\* list(map(int, groups))
GroupInts(g) == [i \in 1..Len(g) |-> IntValue(g[i])]

\* results[-n:]
LastSlice(results, n) ==
    IF n = 0 THEN results
    ELSE IF n > 0 THEN SubSeq(results, IF Len(results) - n + 1 < 1 THEN 1 ELSE Len(results) - n + 1,
                              Len(results))
    ELSE SubSeq(results, (0 - n) + 1, Len(results))

\* the slice repeated once more than asked
RECURSIVE TimesOneMore(_, _)
TimesOneMore(s, m) == IF m < 0 THEN <<>> ELSE s \o TimesOneMore(s, m - 1)

\* for _ in range(m): results.extend(s)
RECURSIVE Times(_, _)
Times(s, m) == IF m <= 0 THEN <<>> ELSE s \o Times(s, m - 1)

\* the events of "(text)" with each key released before it is pressed
RECURSIVE AsciiEventsReleaseFirst(_)
AsciiEventsReleaseFirst(s) ==
    IF Len(s) = 0 THEN <<>>
    ELSE <<<<ord(s[1]), 0>>, <<ord(s[1]), 1>>>> \o AsciiEventsReleaseFirst(Tail(s))

\* tuple((ord(c), state) for c in _ascii_keys for state in (1, 0))
RECURSIVE AsciiEvents(_)
AsciiEvents(s) ==
    IF Len(s) = 0 THEN <<>>
    ELSE <<<<ord(s[1]), 1>>, <<ord(s[1]), 0>>>> \o AsciiEvents(Tail(s))

\* a token that goes on to `ip += 1` with these results, leaving ip at at
Go(at, results, cache, calls) ==
    [ret |-> FALSE, out |-> None, ip |-> at, results |-> results, cache |-> cache, calls |-> calls]

\* a token that returns or raises
Stop(out, cache, calls) ==
    [ret |-> TRUE, out |-> out, ip |-> 0, results |-> <<>>, cache |-> cache, calls |-> calls]

\* case "^" with CTRL released before the key is
CaseCtrlReleasedFirst(keys, ip, results, cache) ==
    IF check_inc_ip(ip, Len(keys)) THEN Stop(Err(<<"^", " ", "i", "s", " ", "m", "i", "s", "s", "i", "n", "g", " ", "a", " ", "c", "o", "n", "t", "r", "o", "l", " ", "c", "h", "a", "r", "a", "c", "t", "e", "r">>), cache, <<>>)
    ELSE IF ip + 1 >= Len(keys) THEN Stop(Raise("IndexError"), cache, <<>>)
    ELSE LET char == At(keys, ip + 1)
         IN Go(ip + 1,
               results \o <<<<UnshiftedKeyCodes.CTRL, 1>>, <<ord(char), 1>>,
                            <<UnshiftedKeyCodes.CTRL, 0>>, <<ord(char), 0>>>>,
               cache, <<>>)

\* case "^"
CaseCtrl(keys, ip, results, cache) ==
    IF check_inc_ip(ip, Len(keys)) THEN Stop(Err(<<"^", " ", "i", "s", " ", "m", "i", "s", "s", "i", "n", "g", " ", "a", " ", "c", "o", "n", "t", "r", "o", "l", " ", "c", "h", "a", "r", "a", "c", "t", "e", "r">>), cache, <<>>)
    ELSE IF ip + 1 >= Len(keys) THEN Stop(Raise("IndexError"), cache, <<>>)
    ELSE LET char == At(keys, ip + 1)
         IN Go(ip + 1,
               results \o <<<<UnshiftedKeyCodes.CTRL, 1>>, <<ord(char), 1>>, <<ord(char), 0>>,
                            <<UnshiftedKeyCodes.CTRL, 0>>>>,
               cache, <<>>)

\* the same cases with every key both pressed and released, whatever the token
CaseSpecialPressRelease(keys, ip, results, cache, table, states, endmsg, badmsg) ==
    IF check_inc_ip(ip, Len(keys)) THEN Stop(Err(endmsg), cache, <<>>)
    ELSE IF ip + 1 >= Len(keys) THEN Stop(Raise("IndexError"), cache, <<>>)
    ELSE LET char == At(keys, ip + 1)
         IN IF char \notin DOMAIN GUAC_KEYS_SPECIAL_MAPPING[table] THEN Stop(Err(badmsg \o Repr(<<char>>)), cache, <<>>)
            ELSE Go(ip + 1,
                    results \o <<<<GUAC_KEYS_SPECIAL_MAPPING[table][char], 1>>,
                                 <<GUAC_KEYS_SPECIAL_MAPPING[table][char], 0>>>>,
                    cache, <<>>)

\* the cases "\\" (the first of the two, the one a match reaches), "!", "|" and "~":
\* states are the pressed values appended for the key
CaseSpecial(keys, ip, results, cache, table, states, endmsg, badmsg) ==
    IF check_inc_ip(ip, Len(keys)) THEN Stop(Err(endmsg), cache, <<>>)
    ELSE IF ip + 1 >= Len(keys) THEN Stop(Raise("IndexError"), cache, <<>>)
    ELSE LET char == At(keys, ip + 1)
         IN IF char \notin DOMAIN GUAC_KEYS_SPECIAL_MAPPING[table] THEN Stop(Err(badmsg \o Repr(<<char>>)), cache, <<>>)
            ELSE Go(ip + 1,
                    results \o [i \in 1..Len(states) |->
                                  <<GUAC_KEYS_SPECIAL_MAPPING[table][char], states[i]>>],
                    cache, <<>>)

\* case "["
CaseFKey(keys, ip, results, cache) ==
    LET _f_key(s) == Between(keys, ip, s.ip)
        After(s) ==
            IF s.st = "ret" THEN Stop(s.out, cache, <<>>)
            ELSE IF ~HasFKey(_f_key(s)) THEN Stop(Err(<<"I", "n", "v", "a", "l", "i", "d", " ", "F", " ", "k", "e", "y", ":", " ">> \o Repr(_f_key(s))), cache, <<>>)
            ELSE Go(s.ip, results \o <<<<FKey(_f_key(s)), 1>>, <<FKey(_f_key(s)), 0>>>>,
                    cache, <<>>)
    IN CHOOSE t \in {After(s) : s \in {ScanTo(keys, ip, ip, "]", <<"N", "o", " ", "F", " ", "e", "s", "c", "a", "p", "e", " ", "e", "n", "d">>)}} : TRUE

\* case "("
CaseAscii(keys, ip, results, cache) ==
    LET After(s) ==
            IF s.st = "ret" THEN Stop(s.out, cache, <<>>)
            ELSE Go(s.ip, results \o AsciiEvents(Between(keys, ip, s.ip)), cache, <<>>)
    IN CHOOSE t \in {After(s) : s \in {ScanTo(keys, ip, ip, ")", <<"N", "o", " ", "A", "S", "C", "I", "I", " ", "k", "e", "y", "s", " ", "e", "n", "d">>)}} : TRUE

\* case "{"
CaseRepeat(keys, ip, results, cache) ==
    LET After(s) ==
            LET g == Groups(Between(keys, ip, s.ip))
                repeat_groups == GroupInts(g)
                repeat_group == LastSlice(results, repeat_groups[1])
            IN IF s.st = "ret" THEN Stop(s.out, cache, <<>>)
               ELSE IF ~GroupsOk(g) THEN Stop(Raise("ValueError"), cache, <<>>)
               ELSE Go(s.ip, results \o Times(repeat_group, repeat_groups[2]), cache, <<>>)
    IN CHOOSE t \in {After(s) : s \in {ScanNumbers(keys, ip, ip, FALSE, "}", <<"N", "o", " ", "r", "e", "p", "e", "a", "t", " ", "e", "n", "d">>,
                                                   <<"I", "n", "v", "a", "l", "i", "d", " ", "c", "h", "a", "r", "a", "c", "t", "e", "r", " ", "i", "n", " ", "r", "e", "p", "e", "a", "t", ":", " ">>)}} : TRUE

\* case "<"
CaseManual(keys, ip, results, cache) ==
    LET After(s) ==
            LET g == Groups(Between(keys, ip, s.ip))
            IN IF s.st = "ret" THEN Stop(s.out, cache, <<>>)
               ELSE IF ~GroupsOk(g) THEN Stop(Raise("ValueError"), cache, <<>>)
               ELSE Go(s.ip, Append(results, GroupInts(g)), cache, <<>>)
    IN CHOOSE t \in {After(s) : s \in {ScanNumbers(keys, ip, ip, FALSE, ">", <<"N", "o", " ", "k", "e", "y", "c", "p", "d", "e", " ", "e", "n", "d">>,
                                                   <<"I", "n", "v", "a", "l", "i", "d", " ", "c", "h", "a", "r", "a", "c", "t", "e", "r", " ", "i", "n", " ", "m", "a", "n", "u", "a", "l", " ", "c", "h", "a", "r", "a", "c", "t", "e", "r", ":", " ">>)}} :
           TRUE

\* The interpreter's recursion limit, counted in nested parse_guac_keys calls.
\* The program sets none; it is far above the nesting of any combo table that
\* has no cycle, so the model keeps it above the number of combo names.
ComboNames == {<<"a">>, <<"b">>}

RecursionLimit == Cardinality(ComboNames) + 2

\* one entry of the log of calls: the macro, the dict when the call began, the
\* dict after the size test of lines 134-135, whether line 137 returned
CallEntry(keys, before, swept, hit) ==
    [keys |-> keys, before |-> before, swept |-> swept, hit |-> hit]

RECURSIVE parse_guac_keys(_, _, _, _)
RECURSIVE WhileLoop(_, _, _, _, _, _, _)

\* case "@" with the nested call appending to the results of the calling macro:
\* the combo is compiled as the continuation of what precedes the reference
CaseComboSharedResults(keys, ip, results, cache, CONFIG, depth) ==
    LET _combo_name(s) == Between(keys, ip, s.ip)
        Extend(s, combo) ==
            IF combo.out.kind = "raise" THEN Stop(combo.out, combo.cache, combo.calls)
            ELSE IF combo.out.kind = "err"
            THEN Stop(Err(_combo_name(s) \o <<":", " ", "c", "o", "m", "b", "o">>), combo.cache, combo.calls)
            ELSE Go(s.ip, combo.out.val, combo.cache, combo.calls)
        After(s) ==
            IF s.st = "ret" THEN Stop(s.out, cache, <<>>)
            ELSE IF _combo_name(s) \notin DOMAIN CONFIG["keys"]
            THEN Stop(Err(<<"N", "o", " ", "c", "o", "m", "b", "o", " ">> \o Repr(_combo_name(s)) \o <<" ", "f", "o", "u", "n", "d">>), cache, <<>>)
            ELSE CHOOSE t \in {Extend(s, combo) :
                                 combo \in {IF depth + 1 > RecursionLimit
                                            THEN [out |-> Raise("RecursionError"), cache |-> cache,
                                                  calls |-> <<>>]
                                            ELSE WhileLoop(CONFIG["keys"][_combo_name(s)], 0, results,
                                                           cache, CONFIG, depth + 1, <<>>)}} : TRUE
    IN CHOOSE t \in {After(s) : s \in {ScanTo(keys, ip, ip, ";", <<"N", "o", " ", "c", "o", "m", "b", "o", " ", "e", "n", "d">>)}} : TRUE

\* case "@": the combo named between "@" and ";" is compiled by a nested call
CaseCombo(keys, ip, results, cache, CONFIG, depth) ==
    LET _combo_name(s) == Between(keys, ip, s.ip)
        Extend(s, combo) ==
            IF combo.out.kind = "raise" THEN Stop(combo.out, combo.cache, combo.calls)
            ELSE IF combo.out.kind = "err" THEN Stop(Err(_combo_name(s) \o <<":", " ", "c", "o", "m", "b", "o">>), combo.cache, combo.calls)
            ELSE Go(s.ip, results \o combo.out.val, combo.cache, combo.calls)
        After(s) ==
            IF s.st = "ret" THEN Stop(s.out, cache, <<>>)
            ELSE IF _combo_name(s) \notin DOMAIN CONFIG["keys"]
            THEN Stop(Err(<<"N", "o", " ", "c", "o", "m", "b", "o", " ">> \o Repr(_combo_name(s)) \o <<" ", "f", "o", "u", "n", "d">>), cache, <<>>)
            ELSE CHOOSE t \in {Extend(s, combo) :
                                 combo \in {parse_guac_keys(CONFIG["keys"][_combo_name(s)],
                                                            cache, CONFIG, depth + 1)}} : TRUE
    IN CHOOSE t \in {After(s) : s \in {ScanTo(keys, ip, ip, ";", <<"N", "o", " ", "c", "o", "m", "b", "o", " ", "e", "n", "d">>)}} : TRUE

\* one token: the match statement of lines 168-394
Token(keys, ip, results, cache, CONFIG, depth) ==
    LET char == At(keys, ip)
    IN IF char \notin special_chars
       THEN Go(ip, results \o <<<<ord(char), 1>>, <<ord(char), 0>>>>, cache, <<>>)
       ELSE CASE char = "@" -> CaseCombo(keys, ip, results, cache, CONFIG, depth)
              [] char = "^" -> CaseCtrl(keys, ip, results, cache)
              [] char = "\\" -> CaseSpecial(keys, ip, results, cache, "escape", <<1>>,
                                            <<"\\", " ", "i", "s", " ", "m", "i", "s", "s", "i", "n", "g", " ", "a", " ", "s", "p", "e", "c", "i", "a", "l", " ", "k", "e", "y", " ", "c", "h", "a", "r", "a", "c", "t", "e", "r">>,
                                            <<"I", "n", "v", "a", "l", "i", "d", " ", "s", "p", "e", "c", "i", "a", "l", " ", "k", "e", "y", " ", "c", "h", "a", "r", ":", " ">>)
              [] char = "~" -> CaseSpecial(keys, ip, results, cache, "arrow", <<1, 0>>,
                                           <<"^", " ", "i", "s", " ", "m", "i", "s", "s", "i", "n", "g", " ", "a", " ", "s", "p", "e", "c", "i", "a", "l", " ", "k", "e", "y", " ", "c", "h", "a", "r", "a", "c", "t", "e", "r">>,
                                           <<"I", "n", "v", "a", "l", "i", "d", " ", "a", "r", "r", "o", "w", " ", "k", "e", "y", " ", "c", "h", "a", "r", ":", " ">>)
              [] char = "[" -> CaseFKey(keys, ip, results, cache)
              [] char = "(" -> CaseAscii(keys, ip, results, cache)
              [] char = "!" -> CaseSpecial(keys, ip, results, cache, "escape", <<0>>,
                                           <<"!", " ", "i", "s", " ", "m", "i", "s", "s", "i", "n", "g", " ", "a", " ", "s", "p", "e", "c", "i", "a", "l", " ", "k", "e", "y", " ", "c", "h", "a", "r", "a", "c", "t", "e", "r">>,
                                           <<"I", "n", "v", "a", "l", "i", "d", " ", "s", "p", "e", "c", "i", "a", "l", " ", "k", "e", "y", " ", "c", "h", "a", "r", ":", " ">>)
              [] char = "{" -> CaseRepeat(keys, ip, results, cache)
              [] char = "|" -> CaseSpecial(keys, ip, results, cache, "escape", <<1, 0>>,
                                           <<"|", " ", "i", "s", " ", "m", "i", "s", "s", "i", "n", "g", " ", "a", " ", "s", "p", "e", "c", "i", "a", "l", " ", "k", "e", "y", " ", "c", "h", "a", "r", "a", "c", "t", "e", "r">>,
                                           <<"I", "n", "v", "a", "l", "i", "d", " ", "s", "p", "e", "c", "i", "a", "l", " ", "k", "e", "y", " ", "c", "h", "a", "r", ":", " ">>)
              [] char = "<" -> CaseManual(keys, ip, results, cache)

\* `while ip < max_ip`: the tokens from ip on; calls collects the nested calls
WhileLoop(keys, ip, results, cache, CONFIG, depth, calls) ==
    IF ip >= Len(keys) THEN [out |-> Ok(results), cache |-> cache, calls |-> calls]
    ELSE LET After(t) ==
                 IF t.ret THEN [out |-> t.out, cache |-> t.cache, calls |-> calls \o t.calls]
                 ELSE WhileLoop(keys, t.ip + 1, t.results, t.cache, CONFIG, depth,
                                calls \o t.calls)
         IN CHOOSE r \in {After(t) : t \in {Token(keys, ip, results, cache, CONFIG, depth)}} :
                TRUE

\* parse_guac_keys storing what its loop ended with, an error included
parse_guac_keysStoresFailure(keys, cache, CONFIG, depth) ==
    IF depth > RecursionLimit
    THEN [out |-> Raise("RecursionError"), cache |-> cache, calls |-> <<>>]
    ELSE LET clear == DictSize(cache) > CONFIG["max-cache"]
             swept == IF clear THEN EmptyDict ELSE cache
             hit == ~clear /\ keys \in DOMAIN cache
         IN IF hit
            THEN [out |-> Ok(cache[keys]), cache |-> cache,
                  calls |-> <<CallEntry(keys, cache, swept, TRUE)>>]
            ELSE LET Store(r) ==
                         [out |-> r.out,
                          cache |-> IF r.out.kind # "raise" THEN Put(r.cache, keys, r.out.val)
                                    ELSE r.cache,
                          calls |-> <<CallEntry(keys, cache, swept, FALSE)>> \o r.calls]
                 IN CHOOSE x \in {Store(r) :
                                     r \in {WhileLoop(keys, 0, <<>>, swept, CONFIG, depth, <<>>)}} :
                        TRUE

\* the call parse_guac_keys(keys) on the dict cache = GUAC_CACHE["guac-keys"],
\* as the depth-th nested call
parse_guac_keys(keys, cache, CONFIG, depth) ==
    IF depth > RecursionLimit
    THEN [out |-> Raise("RecursionError"), cache |-> cache, calls |-> <<>>]
    ELSE LET clear == DictSize(cache) > CONFIG["max-cache"]
             swept == IF clear THEN EmptyDict ELSE cache
             hit == ~clear /\ keys \in DOMAIN cache
         IN IF hit
            THEN [out |-> Ok(cache[keys]), cache |-> cache,
                  calls |-> <<CallEntry(keys, cache, swept, TRUE)>>]
            ELSE LET Store(r) ==
                         [out |-> r.out,
                          cache |-> IF r.out.kind = "ok" THEN Put(r.cache, keys, r.out.val)
                                    ELSE r.cache,
                          calls |-> <<CallEntry(keys, cache, swept, FALSE)>> \o r.calls]
                 IN CHOOSE x \in {Store(r) :
                                     r \in {WhileLoop(keys, 0, <<>>, swept, CONFIG, depth, <<>>)}} :
                        TRUE

\* the compiler with the memo dict taken out (lines 139-396 alone): what a
\* compile from scratch against the combo table returns
Uncached(keys, CONFIG, depth) ==
    parse_guac_keys(keys, EmptyDict, [CONFIG EXCEPT !["max-cache"] = 0 - 1], depth).out

-----------------------------------------------------------------------------
(* The program state *)

VARIABLES
    GUAC_CACHE,   \* the three memo dicts "guac", "unguac" and "guac-keys"
    CONFIG,       \* CONFIG["keys"] (combo name -> macro) and CONFIG["max-cache"]
    State,        \* the dict STATE: STATE["sleep"], in hundredths of a second, and
                  \* STATE["run"]; the chat log STATE["chatlog"] is left out
    AUTH,         \* AUTH["users"], the authenticated users, and AUTH["key"]
    ws,           \* the websocket session of main(): what the loop did last
    last          \* the last call made: what it was given and what it did

vars == <<GUAC_CACHE, CONFIG, State, AUTH, ws, last>>

\* the largest CONFIG["max-cache"] the model starts from
MaxMaxCache == 2

\* the words the skey command is given: the combo's name, then its macro
SkeyArgs ==
    {<<<<"a">>, <<"x">>>>, <<<<"a">>, <<"y">>>>, <<<<"a">>, <<"@", "a", ";">>>>,
     <<<<"a">>, <<"@", "b", ";">>>>, <<<<"b">>, <<"@", "a", ";">>>>, <<<<"b">>, <<"x">>>>,
     <<<<"a">>>>}

\* the values CONFIG["keys"] starts from, as config.json holds them: no combo,
\* two plain combos, a combo naming itself, two combos naming each other, and a
\* combo naming a plain one
ComboTables ==
    {EmptyDict,
     (<<"a">> :> <<"x">> @@ <<"b">> :> <<"x">>),
     (<<"a">> :> <<"@", "a", ";">>),
     (<<"a">> :> <<"@", "b", ";">> @@ <<"b">> :> <<"@", "a", ";">>),
     (<<"a">> :> <<"@", "b", ";">> @@ <<"b">> :> <<"x">>)}

Configs ==
    {("keys" :> t @@ "max-cache" :> m) : t \in ComboTables, m \in 0..MaxMaxCache}

NoCall ==
    [op |-> "none", arg |-> <<>>, out |-> None, before |-> EmptyDict, swept |-> EmptyDict,
     computed |-> FALSE, calls |-> <<>>, keys |-> EmptyDict]

\* the session before main() has read a message: nothing received, nothing
\* sent, no handler called
NoSession ==
    [status |-> "open", n |-> 0, recv |-> <<>>, parsed |-> None, handler |-> "none",
     out |-> None, sent |-> <<>>]

\* module load: the dicts of lines 88-102 are as written there; main() reads
\* config.json
Init ==
    /\ GUAC_CACHE = [n \in {"guac", "unguac", "guac-keys"} |-> EmptyDict]
    /\ CONFIG \in Configs
    /\ State = ("run" :> TRUE @@ "sleep" :> 0)
    /\ AUTH = [users |-> {}, key |-> <<>>]
    /\ ws = NoSession
    /\ last = NoCall

\* guac_msg(*args) with a flush that empties the three dicts together
EncodeFlushesAll(args) ==
    \E r \in {guac_msg(args, GUAC_CACHE["guac"], CONFIG["max-cache"])} :
       /\ GUAC_CACHE' = IF DictSize(GUAC_CACHE["guac"]) > CONFIG["max-cache"]
                        THEN [n \in DOMAIN GUAC_CACHE |-> IF n = "guac" THEN r.cache ELSE EmptyDict]
                        ELSE [GUAC_CACHE EXCEPT !["guac"] = r.cache]
       /\ last' = [op |-> "guac_msg", arg |-> args, out |-> r.out, before |-> GUAC_CACHE["guac"],
                   swept |-> r.swept, computed |-> r.computed, calls |-> <<>>,
                   keys |-> CONFIG["keys"]]
       /\ UNCHANGED <<CONFIG, State, AUTH, ws>>

\* guac_msg(*args) called with the fields args
Encode(args) ==
    \E r \in {guac_msg(args, GUAC_CACHE["guac"], CONFIG["max-cache"])} :
       /\ GUAC_CACHE' = [GUAC_CACHE EXCEPT !["guac"] = r.cache]
       /\ last' = [op |-> "guac_msg", arg |-> args, out |-> r.out, before |-> GUAC_CACHE["guac"],
                   swept |-> r.swept, computed |-> r.computed, calls |-> <<>>,
                   keys |-> CONFIG["keys"]]
       /\ UNCHANGED <<CONFIG, State, AUTH, ws>>

\* unguac_msg(msg) called with the string msg
Decode(msg) ==
    \E r \in {unguac_msg(msg, GUAC_CACHE["unguac"], CONFIG["max-cache"])} :
       /\ GUAC_CACHE' = [GUAC_CACHE EXCEPT !["unguac"] = r.cache]
       /\ last' = [op |-> "unguac_msg", arg |-> msg, out |-> r.out,
                   before |-> GUAC_CACHE["unguac"], swept |-> r.swept,
                   computed |-> r.computed, calls |-> <<>>, keys |-> CONFIG["keys"]]
       /\ UNCHANGED <<CONFIG, State, AUTH, ws>>

\* parse_guac_keys(keys) called with the macro keys
Compile(keys) ==
    \E r \in {parse_guac_keys(keys, GUAC_CACHE["guac-keys"], CONFIG, 1)} :
       /\ GUAC_CACHE' = [GUAC_CACHE EXCEPT !["guac-keys"] = r.cache]
       /\ last' = [op |-> "parse_guac_keys", arg |-> keys, out |-> r.out,
                   before |-> GUAC_CACHE["guac-keys"], swept |-> r.calls[1].swept,
                   computed |-> ~r.calls[1].hit, calls |-> r.calls, keys |-> CONFIG["keys"]]
       /\ UNCHANGED <<CONFIG, State, AUTH, ws>>


-----------------------------------------------------------------------------
(* The commands that change CONFIG["keys"] *)

Users == {<<"u">>}

chat == <<"c", "h", "a", "t">>

\* tuple(guac_msg("key", str(code), str(state)) for code, state in keys): the
\* frames of the events from the i-th on, after frames; an event that is not a
\* pair stops the generator with ValueError, the calls before it already made
RECURSIVE KeyMsgs(_, _, _, _, _)
KeyMsgs(keys, i, frames, cache, maxcache) ==
    IF i > Len(keys) THEN [out |-> [kind |-> "tuple", val |-> frames, msg |-> <<>>], cache |-> cache]
    ELSE IF Len(keys[i]) # 2 THEN [out |-> Raise("ValueError"), cache |-> cache]
    ELSE LET After(r) == KeyMsgs(keys, i + 1, Append(frames, r.out.val), r.cache, maxcache)
         IN CHOOSE t \in {After(r) : r \in {guac_msg(<<<<"k", "e", "y">>, str(keys[i][1]),
                                                        str(keys[i][2])>>, cache, maxcache)}} : TRUE

\* cmd_keys(user, args): the words args joined by blanks are the macro.  An
\* exception of parse_guac_keys goes through cmd_keys.  out is a str (kind "ok"),
\* a tuple of strs (kind "tuple") or an exception.
cmd_keys(user, args) ==
    IF Len(args) = 0
    THEN Encode(<<<<"@">> \o user \o <<" ", "?", "?", "?", " ", "W", "h", "a", "t", ",", " ", "w", "h", "a", "t", " ", "d", "o", " ", "I", " ", "t", "y", "p", "e", ",", " ", "l", "i", "k", "e", "?", " ", "H", "u", "h", "?">>>>)
    ELSE LET Reply(keys) ==
                 IF keys.out.kind = "raise"
                 THEN [out |-> keys.out, cache |-> GUAC_CACHE["guac"], sleep |-> State["sleep"]]
                 ELSE IF keys.out.kind = "err"
                 THEN CHOOSE t \in {[out |-> m.out, cache |-> m.cache, sleep |-> State["sleep"]] :
                                      m \in {guac_msg(<<chat, <<"@">> \o user \o <<" ">> \o keys.out.msg>>,
                                                      GUAC_CACHE["guac"], CONFIG["max-cache"])}} : TRUE
                 ELSE CHOOSE t \in {[out |-> k.out, cache |-> k.cache, sleep |-> 4] :
                                      k \in {KeyMsgs(keys.out.val, 1, <<>>, GUAC_CACHE["guac"],
                                                     CONFIG["max-cache"])}} : TRUE
         IN \E keys \in {parse_guac_keys(Join(<<" ">>, args), GUAC_CACHE["guac-keys"], CONFIG, 1)} :
            \E r \in {Reply(keys)} :
               /\ GUAC_CACHE' = [GUAC_CACHE EXCEPT !["guac-keys"] = keys.cache, !["guac"] = r.cache]
               /\ State' = [State EXCEPT !["sleep"] = r.sleep]
               /\ last' = [op |-> "cmd_keys", arg |-> args, out |-> r.out,
                           before |-> GUAC_CACHE["guac-keys"], swept |-> keys.calls[1].swept,
                           computed |-> ~keys.calls[1].hit, calls |-> keys.calls,
                           keys |-> CONFIG["keys"]]
               /\ UNCHANGED <<CONFIG, AUTH, ws>>

\* cmd_skey(user, args): args[0] names the combo, the other words are its macro.
\* save_config() writes CONFIG to config.json and reads it back unchanged.
cmd_skey(user, args) ==
    IF Len(args) < 2
    THEN Encode(<<chat, <<"@">> \o user
                        \o <<" ", "I", " ", "n", "e", "e", "d", " ", "b", "o", "t", "h", " ", "t", "h", "e", " ", "n", "a", "m", "e", " ", "o", "f", " ", "t", "h", "e", " ", "k", "e", "y", " ", "c", "o", "m", "b", "o", " ", "a", "n", "d", " ", "t", "h", "e", " ", "c", "o", "n", "t", "e", "n", "t">>>>)
    ELSE \E r \in {guac_msg(<<chat, <<"@">> \o user \o <<" ", "K", "e", "y", " ", "c", "o", "m", "b", "o", " ">> \o Repr(args[1]) \o <<" ", "s", "a", "v", "e", "d">>>>,
                           GUAC_CACHE["guac"], CONFIG["max-cache"])} :
            /\ CONFIG' = [CONFIG EXCEPT !["keys"] = Put(@, args[1], Join(<<" ">>, Tail(args)))]
            /\ GUAC_CACHE' = [GUAC_CACHE EXCEPT !["guac"] = r.cache]
            /\ last' = [op |-> "cmd_skey", arg |-> args, out |-> r.out,
                        before |-> GUAC_CACHE["guac"], swept |-> r.swept, computed |-> r.computed,
                        calls |-> <<>>, keys |-> CONFIG["keys"]]
            /\ UNCHANGED <<State, AUTH, ws>>

\* cmd_dkey(user, args)
cmd_dkey(user, args) ==
    IF Len(args) = 0 THEN Encode(<<chat, <<"@">> \o user \o <<" ">>>>)
    ELSE IF args[1] \notin DOMAIN CONFIG["keys"]
    THEN Encode(<<chat, <<"@">> \o user \o <<" ", "W", "o", "n", "'", "t", " ", "d", "e", "l", "e", "t", "e", " ">> \o Repr(args[1]) \o <<" ", "R", "e", "a", "s", "o", "n", ":", " ", "y", "e", "s">>>>)
    ELSE \E r \in {guac_msg(<<chat, <<"@">> \o user \o <<" ", "D", "e", "l", "e", "t", "e", "d", " ">> \o Repr(args[1])>>,
                           GUAC_CACHE["guac"], CONFIG["max-cache"])} :
            /\ CONFIG' = [CONFIG EXCEPT
                            !["keys"] = [n \in DOMAIN @ \ {args[1]} |-> @[n]]]
            /\ GUAC_CACHE' = [GUAC_CACHE EXCEPT !["guac"] = r.cache]
            /\ last' = [op |-> "cmd_dkey", arg |-> args, out |-> r.out,
                        before |-> GUAC_CACHE["guac"], swept |-> r.swept, computed |-> r.computed,
                        calls |-> <<>>, keys |-> CONFIG["keys"]]
            /\ UNCHANGED <<State, AUTH, ws>>

\* cmd_reloadcfg(user, args): CONFIG.update(json.load(cfg)), where file is what
\* config.json holds
cmd_reloadcfg(file) ==
    \E r \in {guac_msg(<<chat, <<"C", "o", "n", "f", "i", "g", "u", "r", "a", "t", "i", "o", "n", " ", "'", "c", "o", "n", "f", "i", "g", ".", "j", "s", "o", "n", "'", " ", "r", "e", "l", "o", "a", "d", "e", "d">>>>,
                      GUAC_CACHE["guac"], file["max-cache"])} :
       /\ CONFIG' = file
       /\ GUAC_CACHE' = [GUAC_CACHE EXCEPT !["guac"] = r.cache]
       /\ last' = [op |-> "cmd_reloadcfg", arg |-> <<>>, out |-> r.out,
                   before |-> GUAC_CACHE["guac"], swept |-> r.swept, computed |-> r.computed,
                   calls |-> <<>>, keys |-> CONFIG["keys"]]
       /\ UNCHANGED <<State, AUTH, ws>>

-----------------------------------------------------------------------------
(* Spec: macros are compiled while commands change the combo table *)

Macros == {<<"x">>, <<"@", "a", ";">>, <<"@", "b", ";">>}

DkeyArgs == {<<>>, <<<<"a">>>>}

CompileMacro == \E keys \in Macros : Compile(keys)

Skey == \E user \in Users, args \in SkeyArgs : cmd_skey(user, args)

Dkey == \E user \in Users, args \in DkeyArgs : cmd_dkey(user, args)

\* config.json holds what save_config() wrote last: main() saves CONFIG at its
\* start, and cmd_skey and cmd_dkey save it after each change of CONFIG["keys"]
Reloadcfg == cmd_reloadcfg(CONFIG)

Next == CompileMacro \/ Skey \/ Dkey \/ Reloadcfg

Spec == Init /\ [][Next]_vars


-----------------------------------------------------------------------------
(* SpecFixed: the three parsers are called in any order; the combo table *)
(* stays as it was read at the start *)

FixedArgs ==
    {<<<<"a">>>>, <<<<"k", "e", "y">>, <<"9", "7">>, <<"1">>>>, <<>>,
     <<<<";", ",">>, <<>>, <<"0", "1", "2", "3", "4", "5", "6", "7", "8", "9">>>>}

FixedMsgs ==
    {<<>>, <<"1", ".", "a", ";">>, <<"0", ".", ",", "1", ".", ";", ";">>, <<"1", ".", "a">>,
     <<"2", ".", "a", ";">>, <<"x">>}

FixedMacros ==
    Macros \cup {<<"@", "a", ";", "@", "b", ";">>, <<"x", "{", "2", "}">>, <<"\\", "x">>,
                 <<"@", "a", ";", "\\", "x">>}

EncodeFixed == \E args \in FixedArgs : Encode(args)

DecodeFixed == \E msg \in FixedMsgs : Decode(msg)

CompileFixed == \E keys \in FixedMacros : Compile(keys)

NextFixed == EncodeFixed \/ DecodeFixed \/ CompileFixed

SpecFixed == Init /\ [][NextFixed]_vars


-----------------------------------------------------------------------------
(* SpecCodec: one instruction is encoded and the frame decoded, or one string *)
(* is decoded; each decode may then be made once more *)

MaxFieldLen == 1

MaxFields == 2

MaxWireLen == 4

MaxTrailerLen == 2

\* every string of at most n characters of chars
RECURSIVE Strings(_, _)
Strings(chars, n) ==
    IF n = 0 THEN {<<>>}
    ELSE LET shorter == Strings(chars, n - 1)
         IN shorter \cup {Append(s, c) : s \in shorter, c \in chars}

\* every sequence of 1 .. n elements of set
RECURSIVE Tuples(_, _)
Tuples(set, n) ==
    IF n = 0 THEN {}
    ELSE IF n = 1 THEN {<<x>> : x \in set}
    ELSE LET shorter == Tuples(set, n - 1)
         IN shorter \cup {Append(t, x) : t \in {u \in shorter : Len(u) = n - 1}, x \in set}

\* a field whose length takes two digits
LongField == <<"0", "1", "2", "3", "4", "5", "6", "7", "8", "9">>

Fields == Strings({".", ",", ";", "1"}, MaxFieldLen) \cup {LongField}

Instructions == Tuples(Fields, MaxFields)

WireStrings ==
    Strings({"1", "3", ".", ",", ";", "a", "b"}, MaxWireLen)
        \cup {<<"3", ".", "a", "b", ";">>,
              <<"4", ".", "c", "h", "a", "t", ",", "2", ".", "h", "i", ";">>,
              <<"1", "2", ".", "a", "b", ";">>,
              <<"1", ".", "a", ",", "b">>,
              <<"1", ".", "a", ",", "1", "b">>,
              <<"1", ".", "a", ",", "1", ".", "a", "b">>}

\* guac_msg is called with an instruction, or with no argument at all
CodecEncode == last.op = "none" /\ \E args \in Instructions \cup {<<>>} : Encode(args)

\* the frame guac_msg returned is what is decoded
CodecLoopback == last.op = "guac_msg" /\ Decode(last.out.val)

CodecDecode == last.op = "none" /\ \E msg \in WireStrings : Decode(msg)

\* what may follow a frame in the string given to unguac_msg
Trailers ==
    (Strings({"1", ".", ",", ";", "a"}, MaxTrailerLen) \ {<<>>}) \cup {<<"1", ".", "a", ";">>}

\* the frame that guac_msg returned, followed by more characters, is decoded
CodecTrailing ==
    /\ last.op = "guac_msg" /\ Len(last.arg) >= 1
    /\ \E s \in Trailers : Decode(last.out.val \o s)

CodecAgain == last.op = "unguac_msg" /\ last.computed /\ Decode(last.arg)

NextCodec == CodecEncode \/ CodecLoopback \/ CodecDecode \/ CodecAgain \/ CodecTrailing

InitCodec == Init /\ CONFIG["keys"] = EmptyDict

SpecCodec == InitCodec /\ [][NextCodec]_vars


-----------------------------------------------------------------------------
(* SpecCompile: one macro, a token after a well-formed start, is compiled; *)
(* the compile may then be made once more *)

MaxRepeat == 2

\* "{N}" and "{N:M}"
RepeatToken(n, m) == <<"{">> \o StrOfNat(n) \o <<":">> \o StrOfNat(m) \o <<"}">>

RepeatTokenShort(n) == <<"{">> \o StrOfNat(n) \o <<"}">>

RepeatTokens ==
    {RepeatTokenShort(n) : n \in 0..MaxRepeat}
        \cup {RepeatToken(n, m) : n \in 0..MaxRepeat, m \in 0..MaxRepeat}

\* tokens cut off before their closing delimiter or their second character
CutTokens ==
    {<<"@", "a">>, <<"(", "a", "b">>, <<"[", "1">>, <<"{", "2">>, <<"{", "2", ":">>,
     <<"<", "6", "5">>, <<"<", "6", "5", ":">>, <<"^">>, <<"\\">>, <<"!">>, <<"|">>,
     <<"~">>}

\* repeat groups and manual events with malformed numbers
BadNumberTokens ==
    {<<"{", "2", ":", "x", "}">>, <<"{", "}">>, <<"{", ":", "3", "}">>, <<"{", "x", "}">>,
     <<"{", "1", ":", "-", "1", "}">>, <<"<", "6", "5", ":", "x", ">">>, <<"<", "x", ">">>,
     <<"<", ">">>, <<"<", ":", "1", ">">>}

ManualTokens ==
    {<<"<", "6", "5", ">">>, <<"<", "6", "5", ":", "0", ">">>,
     <<"<", "6", "5", ":", "1", ">">>, <<"<", "6", "5", ":", "2", ">">>,
     <<"<", "6", "5", ":", "1", ":", "3", ">">>}

PlainTokens ==
    {<<"a">>, <<"^", "c">>, <<"^", "^">>, <<"\\", "n">>, <<"\\", "x">>, <<"!", "n">>,
     <<"!", "x">>, <<"|", "n">>, <<"|", "x">>, <<"\\", ")">>, <<"!", "e">>, <<"|", "c">>,
     <<"~", "d">>, <<"~", "x">>,
     <<"[", "1", "]">>, <<"[", "1", "2", "]">>, <<"[", "x", "]">>, <<"(", "a", "b", ")">>,
     <<"(", ")">>, <<"@", "a", ";">>, <<"@", "b", ";">>, <<"@", "z", ";">>}

Tokens == RepeatTokens \cup CutTokens \cup BadNumberTokens \cup ManualTokens \cup PlainTokens

\* what goes before the token: nothing, or tokens that compile whatever follows
Starts ==
    {<<>>, <<"a">>, <<"a", "b">>, <<"^", "c">>, <<"(", "a", "b", ")">>, <<"\\", "n">>,
     <<"<", "6", "5", ">">>, <<"@", "a", ";">>, <<"a", "@", "a", ";">>}

TokenMacros == {s \o t : s \in Starts, t \in Tokens} \ {<<>>}

CompileOnce == last.op = "none" /\ \E keys \in TokenMacros : Compile(keys)

CompileAgain == last.op = "parse_guac_keys" /\ last.computed /\ Compile(last.arg)

NextCompile == CompileOnce \/ CompileAgain

\* combos with a repeat group of their own: one that asks for more events than
\* the combo has emitted, one that asks for all of them
RepeatComboTables ==
    {(<<"a">> :> <<"x", "{", "3", "}">> @@ <<"b">> :> <<"x", "{", "0", "}">>)}

InitCompile ==
    /\ GUAC_CACHE = [n \in {"guac", "unguac", "guac-keys"} |-> EmptyDict]
    /\ CONFIG \in Configs \cup {("keys" :> t @@ "max-cache" :> m) :
                                   t \in RepeatComboTables, m \in 0..MaxMaxCache}
    /\ State = ("run" :> TRUE @@ "sleep" :> 0)
    /\ AUTH = [users |-> {}, key |-> <<>>]
    /\ ws = NoSession
    /\ last = NoCall

SpecCompile == InitCompile /\ [][NextCompile]_vars

-----------------------------------------------------------------------------
(* SpecKeys: the keys command is given one macro, and may be given it again *)

\* the words after "keys": none, macros that compile (one with a blank, one with
\* an event of three numbers, one with a negative state), macros that end in an
\* error str, and macros on which parse_guac_keys raises
KeysArgs ==
    {<<>>, <<<<"a">>>>, <<<<"a">>, <<"b">>>>, <<<<"^", "c">>>>, <<<<"@", "a", ";">>>>,
     <<<<"(", "a", "b", ")", "{", "2", ":", "2", "}">>>>,
     <<<<"a", "<", "6", "5", ":", "1", ":", "3", ">">>>>, <<<<"<", "6", "5", ":", "-", "1", ">">>>>,
     <<<<"a", "[", "x", "]">>>>, <<<<"a", "\\", "x">>>>, <<<<"a">>, <<"@", "z", ";">>>>,
     <<<<"a", "{", "x", "}">>>>, <<<<"a", "^">>>>, <<<<"a", "{", "}">>>>, <<<<"(", "a">>>>}

KeysOnce == last.op = "none" /\ \E user \in Users, args \in KeysArgs : cmd_keys(user, args)

KeysAgain == last.op = "cmd_keys" /\ last.computed /\ \E user \in Users : cmd_keys(user, last.arg)

NextKeys == KeysOnce \/ KeysAgain

SpecKeys == Init /\ [][NextKeys]_vars

-----------------------------------------------------------------------------
(* The session: the commands as main() reaches them, the chat handler and *)
(* the loop of main() *)

UpperCase == <<"A", "B", "C", "D", "E", "F", "G", "H", "I", "J", "K", "L", "M", "N", "O", "P", "Q", "R", "S", "T", "U", "V", "W", "X", "Y", "Z">>

LowerCase == <<"a", "b", "c", "d", "e", "f", "g", "h", "i", "j", "k", "l", "m", "n", "o", "p", "q", "r", "s", "t", "u", "v", "w", "x", "y", "z">>

\* s.lower() of a str of ASCII characters
lower(s) ==
    [i \in 1..Len(s) |-> IF \E n \in 1..26 : UpperCase[n] = s[i]
                         THEN LowerCase[CHOOSE n \in 1..26 : UpperCase[n] = s[i]]
                         ELSE s[i]]

\* s.startswith(p)
startswith(s, p) == Len(s) >= Len(p) /\ SubSeq(s, 1, Len(p)) = p

\* t in s, for two strs
Contains(s, t) == \E i \in 0..(Len(s) - Len(t)) : SubSeq(s, i + 1, i + Len(t)) = t

\* x in l, for a list l
InList(x, l) == \E i \in 1..Len(l) : l[i] = x

\* l[1:]
Rest(l) == IF Len(l) = 0 THEN l ELSE Tail(l)

\* s.split(c)
RECURSIVE SplitOn(_, _)
SplitOn(s, c) ==
    IF \A i \in 1..Len(s) : s[i] # c THEN <<s>>
    ELSE LET p == CHOOSE i \in 1..Len(s) : s[i] = c /\ \A j \in 1..(i - 1) : s[j] # c
         IN <<SubSeq(s, 1, p - 1)>> \o SplitOn(SubSeq(s, p + 1, Len(s)), c)

\* s.split() where the only whitespace is the blank
RECURSIVE Words(_)
Words(s) ==
    IF \A i \in 1..Len(s) : s[i] = " " THEN <<>>
    ELSE LET a == CHOOSE i \in 1..Len(s) : s[i] # " " /\ \A j \in 1..(i - 1) : s[j] = " "
             b == IF \E i \in a..Len(s) : s[i] = " "
                  THEN CHOOSE i \in a..Len(s) : s[i] = " " /\ \A j \in a..(i - 1) : s[j] # " "
                  ELSE Len(s) + 1
         IN <<SubSeq(s, a, b - 1)>> \o Words(SubSeq(s, b, Len(s)))

\* s.replace(grave accent, " ") of a str without a grave accent, a character
\* the alphabet of the model does not have
Unbacktick(s) == s

\* html.unescape(s) of a str without "&": no character reference to replace
html_unescape(s) == s

\* the dicts the commands read and write, as one record
Program == [cache |-> GUAC_CACHE, config |-> CONFIG, state |-> State, auth |-> AUTH]

\* what a handler did: out is what it returned or raised, handler names the
\* command that was called ("none": no command), prog is the program afterwards
Done(out, handler, p) == [out |-> out, handler |-> handler, prog |-> p]

\* return guac_msg(*args), in the command named handler
Say(p, handler, args) ==
    LET After(r) == Done(r.out, handler, [p EXCEPT !.cache["guac"] = r.cache])
    IN CHOOSE d \in {After(r) : r \in {guac_msg(args, p.cache["guac"], p.config["max-cache"])}} : TRUE

\* cmd_hi(user, args)
cmd_hi(user, args, p) == Say(p, "cmd_hi", <<chat, <<"H", "e", "l", "l", "o", ",", " ", "@">> \o user \o <<" ", ":", "}">>>>)

\* cmd_log(user, args); newkey is what gen_key() returns in reset_authkey()
cmd_log(user, args, p, newkey) ==
    IF Len(args) < 3 THEN Say(p, "cmd_log", <<chat, <<"U", "h", "h", ",", " ", "I", " ", "n", "e", "e", "d", " ", "<", "m", "e", "|", "u", "s", "e", "r", ">", " ", "<", "i", "n", "|", "o", "u", "t", ">", " ", "<", "a", "u", "t", "h", " ", "k", "e", "y", ">">>>>)
    ELSE IF args[Len(args)] # p.auth.key
    THEN Say(p, "cmd_log", <<chat, <<"@">> \o user \o <<" ", "y", "o", "u", "r", " ", "a", "u", "t", "h", " ", "k", "e", "y", " ", "i", "s", " ", "i", "n", "v", "a", "l", "i", "d", " ", "l", "m", "a", "o">>>>)
    ELSE LET q == [p EXCEPT !.auth.key = newkey]
             auth_user == IF args[1] = <<"m", "e">> THEN user ELSE args[1]
             logged == <<chat, <<"@">> \o auth_user \o <<" ", "y", "o", "u", " ", "h", "a", "v", "e", " ", "b", "e", "e", "n", " ", "l", "o", "g", "g", "e", "d", " ">> \o args[2]>>
         IN IF InList(auth_user, q.config["ignored"])
            THEN Say(q, "cmd_log", <<chat, Repr(auth_user) \o <<" ", "i", "s", " ", "i", "g", "n", "o", "r", "e", "d", " ", "f", "o", "r", " ", "a", " ", "r", "e", "a", "s", "o", "n", " ", ":", "|">>>>)
            ELSE IF args[2] = <<"i", "n">>
            THEN IF auth_user \in q.auth.users
                 THEN Say(q, "cmd_log", <<chat, auth_user \o <<" ", "i", "s", " ", "a", "l", "r", "e", "a", "d", "y", " ", "a", "u", "t", "h", "e", "n", "t", "i", "c", "a", "t", "e", "d">>>>)
                 ELSE Say([q EXCEPT !.auth.users = @ \cup {auth_user}], "cmd_log", logged)
            ELSE IF args[2] = <<"o", "u", "t">>
            THEN IF auth_user \notin q.auth.users
                 THEN Say(q, "cmd_log", <<chat, auth_user \o <<" ", "i", "s", " ", "n", "o", "t", " ", "a", "u", "t", "h", "e", "n", "t", "i", "c", "a", "t", "e", "d">>>>)
                 ELSE Say([q EXCEPT !.auth.users = @ \cup {auth_user}], "cmd_log", logged)
            ELSE Say(q, "cmd_log", <<chat, <<"H", "o", "w", " ", "d", "o", " ", "I", " ", "l", "o", "g", " ">> \o Repr(args[2]) \o <<" ", "a", " ", "p", "e", "r", "s", "o", "n", " ", "o", "u", "t", "?", "?", "?">>>>)

\* cmd_die(user, args)
cmd_die(user, args, p) ==
    LET q == [p EXCEPT !.state["run"] = FALSE]
    IN IF q.config["bye-message"] # <<>> THEN Say(q, "cmd_die", <<chat, q.config["bye-message"]>>)
       ELSE Say(q, "cmd_die", <<<<"n", "o", "p">>>>)

\* cmd_keys(user, args) on the program p
cmd_keysOn(user, args, p) ==
    IF Len(args) = 0
    THEN Say(p, "cmd_keys", <<<<"@">> \o user \o <<" ", "?", "?", "?", " ", "W", "h", "a", "t", ",", " ", "w", "h", "a", "t", " ", "d", "o", " ", "I", " ", "t", "y", "p", "e", ",", " ", "l", "i", "k", "e", "?", " ", "H", "u", "h", "?">>>>)
    ELSE LET Typed(q, k) ==
                 Done(k.out, "cmd_keys", [q EXCEPT !.cache["guac"] = k.cache, !.state["sleep"] = 4])
             After(keys) ==
                 LET q == [p EXCEPT !.cache["guac-keys"] = keys.cache]
                 IN IF keys.out.kind = "raise" THEN Done(keys.out, "cmd_keys", q)
                    ELSE IF keys.out.kind = "err"
                    THEN Say(q, "cmd_keys", <<chat, <<"@">> \o user \o <<" ">> \o keys.out.msg>>)
                    ELSE CHOOSE d \in {Typed(q, k) :
                                         k \in {KeyMsgs(keys.out.val, 1, <<>>, q.cache["guac"],
                                                        q.config["max-cache"])}} : TRUE
         IN CHOOSE d \in {After(keys) :
                            keys \in {parse_guac_keys(Join(<<" ">>, args), p.cache["guac-keys"],
                                                      p.config, 1)}} : TRUE

\* cmd_skey(user, args) on the program p
cmd_skeyOn(user, args, p) ==
    IF Len(args) < 2
    THEN Say(p, "cmd_skey", <<chat, <<"@">> \o user \o <<" ", "I", " ", "n", "e", "e", "d", " ", "b", "o", "t", "h", " ", "t", "h", "e", " ", "n", "a", "m", "e", " ", "o", "f", " ", "t", "h", "e", " ", "k", "e", "y", " ", "c", "o", "m", "b", "o", " ", "a", "n", "d", " ", "t", "h", "e", " ", "c", "o", "n", "t", "e", "n", "t">>>>)
    ELSE Say([p EXCEPT !.config["keys"] = Put(@, args[1], Join(<<" ">>, Tail(args)))], "cmd_skey",
             <<chat, <<"@">> \o user \o <<" ", "K", "e", "y", " ", "c", "o", "m", "b", "o", " ">> \o Repr(args[1]) \o <<" ", "s", "a", "v", "e", "d">>>>)

\* the start of the docstring of each command of class CommandParser that the
\* model has
CommandDocs ==
    <<"h", "i">> :> <<"N", "o", "a", "u", "t", "h", " ", "c", "o", "m", "m", "a", "n", "d", ",", " ", "s", "a", "y", "s", " ", "h", "e", "l", "l", "o", " ", "t", "o", " ", "t", "h", "e", " ", "u", "s", "e", "r">>
    @@ <<"l", "o", "g">> :> <<"N", "o", "a", "u", "t", "h", " ", "c", "o", "m", "m", "a", "n", "d", ",", " ", "a", "u", "t", "h", "e", "n", "t", "i", "c", "a", "t", "e", "s", " ", "t", "h", "e", " ", "u", "s", "e", "r">>
    @@ <<"d", "i", "e">> :> <<"A", "u", "t", "h", " ", "c", "o", "m", "m", "a", "n", "d", ",", " ", "e", "x", "i", "s", "t", "s", " ", "t", "h", "e", " ", "s", "e", "r", "v", "e", "r">>
    @@ <<"k", "e", "y", "s">> :> <<"A", "u", "t", "h", " ", "c", "o", "m", "m", "a", "n", "d", ",", " ", "t", "y", "p", "e", "s", " ", "a", " ", "s", "u", "p", "p", "l", "i", "e", "d", " ", "k", "e", "y", " ", "c", "o", "m", "b", "o">>
    @@ <<"s", "k", "e", "y">> :> <<"A", "u", "t", "h", " ", "c", "o", "m", "m", "a", "n", "d", ",", " ", "s", "a", "v", "e", " ", "a", " ", "k", "e", "y", " ", "c", "o", "m", "b", "o">>

\* a docstring test that takes "Auth command" for the mark too, the word being
\* looked for anywhere in the text and in either case
NoauthAnywhere(doc) == Contains(lower(doc), <<"a", "u", "t", "h">>)

\* (cmd_handler.__doc__ or "").strip().startswith("Noauth")
Noauth(doc) == startswith(Strip(doc), <<"N", "o", "a", "u", "t", "h">>)

\* the commands whose docstring begins with "Auth command"
AuthCommands == {name \in DOMAIN CommandDocs : startswith(CommandDocs[name], <<"A", "u", "t", "h", " ", "c", "o", "m", "m", "a", "n", "d">>)}

\* f"cmd_{command[0]}", the name of the handler of the command named name
HandlerName(name) ==
    CASE name = <<"h", "i">> -> "cmd_hi"
      [] name = <<"l", "o", "g">> -> "cmd_log"
      [] name = <<"d", "i", "e">> -> "cmd_die"
      [] name = <<"k", "e", "y", "s">> -> "cmd_keys"
      [] name = <<"s", "k", "e", "y">> -> "cmd_skey"

\* cmd_handler(user, args) for the handler of the command named name
CallHandler(name, user, args, p, newkey) ==
    IF name = <<"h", "i">> THEN cmd_hi(user, args, p)
    ELSE IF name = <<"l", "o", "g">> THEN cmd_log(user, args, p, newkey)
    ELSE IF name = <<"d", "i", "e">> THEN cmd_die(user, args, p)
    ELSE IF name = <<"k", "e", "y", "s">> THEN cmd_keysOn(user, args, p)
    ELSE cmd_skeyOn(user, args, p)

\* MessageParser.type_nop(content)
type_nop(p) == Say(p, "none", <<<<"n", "o", "p">>>>)

\* the dad joke of type_chat, entered with the words command
DadJoke(user, command0, p) ==
    LET am == Len(command0) > 0 /\ lower(command0[1]) = <<"a", "m">>
        command == IF am THEN Tail(command0) ELSE command0
        who == Join(<<" ">>, command)
        special == {p.config["bot-name"], p.config["user-name"]}
    IN IF Len(command0) = 0 \/ Len(command) = 0 THEN type_nop(p)
       ELSE IF (who \in special \/ Rest(who) \in special) /\ user # Strip(who)
       THEN Say(p, "none", <<chat, <<"@">> \o user \o <<" ", "Y", "e", "a", "h", " ", "I", " ", "d", "o", "u", "b", "t", " ", "l", "m", "a", "o">>>>)
       ELSE Say(p, "none", <<chat, <<"H", "i", " ">> \o who \o <<",", " ", "I", "'", "m", " ">> \o p.config["bot-name"] \o <<" ", ":", ")">>>>)

\* MessageParser.type_chat(content) at the depth-th frame of the call stack
RECURSIVE type_chat(_, _, _, _)
type_chat(content, p, newkey, depth) ==
    IF depth > RecursionLimit THEN Done(Raise("RecursionError"), "none", p)
    ELSE IF Len(content) = 0 THEN Done(Raise("IndexError"), "none", p)
    ELSE
    LET str_msg == html_unescape(Join(<<" ">>, Tail(content)))
        user == Strip(content[1])
        bot == p.config["bot-name"]
        owner == p.config["user-name"]
        command == [i \in 1..Len(Rest(Words(str_msg))) |-> Unbacktick(Rest(Words(str_msg))[i])]
        _bot_mention == <<"@">> \o bot
    IN IF InList(user, p.config["ignored"]) THEN type_nop(p)
       ELSE IF InList(lower(user), p.config["impersonators"]) /\ user \notin p.auth.users
       THEN Say(p, "none", <<chat, <<"U", "s", "e", "r", " ">> \o user \o <<" ", "i", "s", " ", "a", "n", " ", "i", "m", "p", "e", "r", "s", "o", "n", "a", "t", "o", "r", ".", " ", "D", "o", " ", "n", "o", "t", " ", "t", "r", "u", "s", "t", " ", "t", "h", "e", "m", ".">>>>)
       ELSE IF user = <<"M", "r", ".", " ", "W", "a", "r", "e">> /\ Contains(str_msg, <<"@", "E", "m", "p", "e", "r", "o", "r", " ", "P", "a", "l", "p", "a", "t", "i", "n", "e", " ", "i", "s", " ", "n", "o", "t", " ", "t", "h", "e", " ", "s", "e", "n", "a", "t", "e">>)
       THEN Say(p, "none", <<chat, <<"@">> \o user \o <<" ", "Y", "e", "s", " ", "h", "e", " ", "i", "s", " ", ">", ":", "(">>>>)
       ELSE IF Len(content) > 3 \/ user = <<>> \/ user = bot THEN type_nop(p)
       ELSE IF Len(content) < 2 THEN Done(Raise("IndexError"), "none", p)
       ELSE IF Strip(lower(content[2])) \in {<<"@">> \o owner, owner}
       THEN IF user = owner THEN type_nop(p)
            ELSE Say(p, "none", <<chat, <<"@">> \o user \o <<" ", "s", "m", "h", " ", "w", "h", "a", "t", "t", "t", "t", "t", "t", "t", "t", "t", "t", "t", "t", "t">>>>)
       ELSE LET _dad_joke_im == SplitOn(lower(content[2]), " ")[1]
            IN IF \/ _dad_joke_im \in {<<"i", "&", "#", "x", "2", "7", ";", "m">>, <<"i", "m">>}
                  \/ _dad_joke_im = <<"i">> /\ Len(command) > 0 /\ lower(command[1]) = <<"a", "m">>
               THEN DadJoke(user, command, p)
               ELSE IF startswith(content[2], _bot_mention) /\ Len(command) = 0
               THEN Say(p, "none", <<chat, <<"@">> \o user \o <<" ", "H", "u", "h", "?", " ", "W", "h", "a", "t", " ", "d", "o", " ", "y", "o", "u", " ", "w", "a", "n", "t", " ", "l", "o", "l">>>>)
               ELSE IF ~startswith(content[2], _bot_mention \o <<" ">>) THEN type_nop(p)
               ELSE IF command[1] \notin DOMAIN CommandDocs
               THEN IF command[1] \in DOMAIN p.config["aliases"]
                    THEN LET words == SplitOn(str_msg, " ")
                             text == Strip(<<"@">> \o bot \o <<" ">> \o p.config["aliases"][command[1]] \o <<" ">>
                                           \o Join(<<" ">>, SubSeq(words, 3, Len(words))))
                             Caught(r) ==
                                 IF r.out = Raise("RecursionError")
                                 THEN Say(p, "none", <<chat, <<"Z", "A", "M", "N", "!", " ", "Y", "o", "u", "r", " ", "a", "l", "i", "a", "s", " ", "i", "s", " ", "*", "e", "x", "t", "r", "e", "m", "e", "l", "y", "*", " ", "r", "e", "c", "u", "r", "s", "i", "v", "e">>>>)
                                 ELSE r
                         IN CHOOSE d \in {Caught(r) : r \in {type_chat(<<user, text>>, p, newkey, depth + 1)}} : TRUE
                    ELSE Say(p, "none", <<chat, <<"L", "m", "a", "o", " ", "w", "h", "a", "t", " ", "e", "v", "e", "n", " ", "i", "s", " ">> \o Repr(command[1]) \o <<"?">>>>)
               ELSE IF Noauth(CommandDocs[command[1]])
               THEN CallHandler(command[1], user, Tail(command), p, newkey)
               ELSE IF user \notin p.auth.users
               THEN Say(p, "none", <<chat, <<"H", "e", "y", " ">> \o Repr(user) \o <<",", " ", "y", "o", "u", " ", "a", "r", "e", " ", "n", "o", "t", " ", "a", "u", "t", "h", "e", "n", "t", "i", "c", "a", "t", "e", "d", " ", ":", "(">>>>)
               ELSE CallHandler(command[1], user, Tail(command), p, newkey)

\* repr(msg) of the aiohttp.WSMessage of a text frame with the data msg
WSMessageRepr(msg) ==
    <<"W", "S", "M", "e", "s", "s", "a", "g", "e", "(", "t", "y", "p", "e", "=", "<", "W", "S", "M", "s", "g", "T", "y", "p", "e", ".", "T", "E", "X", "T", ":", " ", "1", ">", ",", " ", "d", "a", "t", "a", "=">> \o Repr(msg) \o <<",", " ", "e", "x", "t", "r", "a", "=", "'", "'", ")">>

\* (getattr(MessageParser, f"type_{parsed_msg[0]}", None) or MessageParser.type_nop)
\* (parsed_msg[1:]), for the instructions the model receives: chat, and ones
\* MessageParser has no handler for
Dispatch(parsed_msg, p, newkey) ==
    IF Len(parsed_msg) = 0 THEN Done(Raise("IndexError"), "none", p)
    ELSE IF parsed_msg[1] = chat THEN type_chat(Tail(parsed_msg), p, newkey, 1)
    ELSE type_nop(p)

\* the messages a session reads at most
MaxInbound == 2

\* the values gen_key() returns
AuthKeys == {<<"k">>, <<"j">>}

\* one turn of the loop of main() on the inbound text frame msg.  The
\* coroutine of line 1452 is made and never awaited: nothing is sent.  An
\* exception leaves the loop and main().
main(msg) ==
    /\ ws.status = "open"
    /\ ws.n < MaxInbound
    /\ \E newkey \in AuthKeys :
       \E parsed \in {unguac_msg(msg, GUAC_CACHE["unguac"], CONFIG["max-cache"])} :
       \E r \in {IF parsed.out.kind = "raise"
                 THEN Done(parsed.out, "none", [Program EXCEPT !.cache["unguac"] = parsed.cache])
                 ELSE IF parsed.out.kind = "none"
                 THEN Say([Program EXCEPT !.cache["unguac"] = parsed.cache], "none",
                          <<chat, <<"T", "h", "e", " ", "g", "u", "a", "c", " ", "p", "a", "r", "s", "e", "r", " ", "f", "a", "i", "l", "e", "d", " ", "o", "n", " ", "m", "e", "s", "s", "a", "g", "e", ":", " ">> \o WSMessageRepr(msg)>>)
                 ELSE Dispatch(parsed.out.val, [Program EXCEPT !.cache["unguac"] = parsed.cache],
                               newkey)} :
          /\ GUAC_CACHE' = r.prog.cache
          /\ CONFIG' = r.prog.config
          /\ AUTH' = r.prog.auth
          /\ State' = IF parsed.out.kind = "ok" /\ r.out.kind # "raise"
                      THEN [r.prog.state EXCEPT !["sleep"] = 0]
                      ELSE r.prog.state
          /\ ws' = [status |-> IF r.out.kind = "raise" THEN "crashed"
                               ELSE IF parsed.out.kind = "ok" /\ ~r.prog.state["run"] THEN "closed"
                               ELSE "open",
                    n |-> ws.n + 1,
                    recv |-> msg,
                    parsed |-> parsed.out,
                    handler |-> r.handler,
                    out |-> r.out,
                    sent |-> IF parsed.out.kind # "ok" \/ r.out.kind = "raise" THEN <<>>
                             ELSE IF r.out.kind = "tuple" THEN r.out.val
                             ELSE <<r.out.val>>]
          /\ UNCHANGED last

-----------------------------------------------------------------------------
(* SpecSession: main() reads up to MaxInbound messages *)

SessionUsers == {<<"u">>, <<"v">>}

\* the frame of the chat instruction in which user says text
ChatFrame(user, text) == GuacFormat(<<chat, user, text>>)

\* what user u says: commands with and without the auth key, macros that
\* compile, that end in an error str and that raise, an alias, no command
SaidByU ==
    {<<"@", "b", " ", "h", "i">>, <<"@", "b", " ", "l", "o", "g", " ", "m", "e", " ", "i", "n", " ", "k">>, <<"@", "b", " ", "l", "o", "g", " ", "m", "e", " ", "o", "u", "t", " ", "k">>, <<"@", "b", " ", "l", "o", "g", " ", "m", "e", " ", "i", "n", " ", "j">>, <<"@", "b", " ", "k", "e", "y", "s", " ", "a", "b">>,
     <<"@", "b", " ", "k", "e", "y", "s", " ", "<", "6", "5", ":", "1", ":", "3", ">">>, <<"@", "b", " ", "k", "e", "y", "s", " ", "^">>, <<"@", "b", " ", "k", "e", "y", "s", " ", "[", "x", "]">>, <<"@", "b", " ", "s", "k", "e", "y", " ", "a", " ", "x">>, <<"@", "b", " ", "d", "i", "e">>, <<"@", "b", " ", "w", "a", "t">>, <<"@", "b">>}

\* what user v says
SaidByV == {<<"@", "b", " ", "k", "e", "y", "s", " ", "x">>, <<"@", "b", " ", "s", "k", "e", "y", " ", "a", " ", "y">>, <<"@", "b", " ", "d", "i", "e">>, <<"@", "b", " ", "k", " ", "x">>, <<"@", "b", " ", "r">>, <<"@", "b", " ", "l", "o", "g", " ", "u", " ", "o", "u", "t", " ", "k">>}

ChatFrames == {ChatFrame(<<"u">>, t) : t \in SaidByU} \cup {ChatFrame(<<"v">>, t) : t \in SaidByV}

\* the other text frames: the empty one, a nop, strings that are no frame, and
\* a chat without a field
OtherFrames == {<<>>, <<"3", ".", "n", "o", "p", ";">>, <<"x">>, <<"1">>, <<"4", ".", "c", "h", "a", "t", ";">>}

ReadChat == \E msg \in ChatFrames : main(msg)

ReadOther == \E msg \in OtherFrames : main(msg)

NextSession == ReadChat \/ ReadOther

\* config.json of the session: the bot is b, its owner o
SessionConfigs ==
    {("keys" :> EmptyDict @@ "max-cache" :> m @@ "bot-name" :> <<"b">> @@ "user-name" :> <<"o">>
      @@ "ignored" :> <<>> @@ "impersonators" :> <<>> @@ "bye-message" :> <<"G", "o", "o", "d", "b", "y", "e", ",", " ", "w", "o", "r", "l", "d", "!">>
      @@ "aliases" :> (<<"k">> :> <<"k", "e", "y", "s">> @@ <<"r">> :> <<"r">>)) : m \in {0, MaxMaxCache}}

\* main() before its loop: reset_authkey() and AUTH["users"].clear()
InitSession ==
    /\ GUAC_CACHE = [n \in {"guac", "unguac", "guac-keys"} |-> EmptyDict]
    /\ CONFIG \in SessionConfigs
    /\ State = ("run" :> TRUE @@ "sleep" :> 0)
    /\ AUTH \in {[users |-> {}, key |-> k] : k \in AuthKeys}
    /\ ws = NoSession
    /\ last = NoCall

SpecSession == InitSession /\ [][NextSession]_vars

-----------------------------------------------------------------------------
(* The claims *)

\* C1: decoding the frame that guac_msg made of a non-empty sequence of fields
\* returns exactly those fields, in the same order
C1_RoundTrip ==
    last.op = "unguac_msg" =>
        \A args \in DOMAIN GUAC_CACHE["guac"] :
            (Len(args) >= 1 /\ GUAC_CACHE["guac"][args] = last.arg) => last.out = Ok(args)

\* a frame of a ten-character field and a field ";" was encoded and decoded
C1_Witness ==
    /\ last.op = "unguac_msg"
    /\ <<LongField, <<";">>>> \in DOMAIN GUAC_CACHE["guac"]
    /\ last.arg = GUAC_CACHE["guac"][<<LongField, <<";">>>>]
    /\ last.out = Ok(<<LongField, <<";">>>>)

\* C2: unguac_msg returns None, and does not raise, for every string that ends
\* before its frame is complete: every non-empty string that a frame begins
\* with and goes on after
C2_TruncatedIsFailure ==
    LET Frames == {GuacFormat(args) : args \in Instructions \cup {<<<<"a", "b", ";">>>>}}
        Truncated(m) ==
            m # <<>> /\ \E f \in Frames : Len(m) < Len(f) /\ SubSeq(f, 1, Len(m)) = m
    IN (last.op = "unguac_msg" /\ Truncated(last.arg)) => last.out = None

\* C3: a compile of a macro "@n;" whose chain of combo references comes back to
\* a name it has been through (with two names: a chain of three references)
\* returns an error str
C3_CycleIsError ==
    LET IsRef(m) == Len(m) = 3 /\ m[1] = "@" /\ m[3] = ";" /\ <<m[2]>> \in DOMAIN last.keys
        Step(m) == IF IsRef(m) THEN last.keys[<<m[2]>>] ELSE <<>>
    IN (last.op = "parse_guac_keys" /\ last.computed /\ IsRef(Step(Step(last.arg))))
           => last.out.kind = "err"

\* C4: whatever compiles and changes of CONFIG["keys"] came before, a compile
\* returns what a compile from scratch against the combo table of now returns
C4_NeverStale ==
    last.op = "parse_guac_keys" => last.out = Uncached(last.arg, CONFIG, 1)

\* C5: a compile of a macro that ends inside a token, before its closing
\* delimiter or right after "^", "\", "!", "|" or "~", returns an error str:
\* it neither raises nor returns events
C5_CutTokenIsError ==
    LET CleanStarts == {s \in Starts : \A i \in 1..Len(s) : s[i] # "@"}
        CutMacros == {s \o t : s \in CleanStarts, t \in CutTokens}
    IN (last.op = "parse_guac_keys" /\ last.arg \in CutMacros) => last.out.kind = "err"

\* C6: after a start that emitted at least N events, "{N:M}" appends M copies
\* of the last N of them and nothing else, and "{N}" appends one copy
C6_RepeatAppendsLastN ==
    \A s \in Starts, n \in 0..MaxRepeat, m \in 0..MaxRepeat :
        LET E == Uncached(s, CONFIG, 1)
            LastN == SubSeq(E.val, Len(E.val) - n + 1, Len(E.val))
            Expected == Ok(E.val \o Times(LastN, m))
        IN /\ (/\ last.op = "parse_guac_keys"
               /\ last.arg = s \o RepeatToken(n, m)
               /\ E.kind = "ok" /\ Len(E.val) >= n) => last.out = Expected
           /\ (/\ last.op = "parse_guac_keys"
               /\ last.arg = s \o RepeatTokenShort(n) /\ m = 1
               /\ E.kind = "ok" /\ Len(E.val) >= n) => last.out = Expected

\* C7: every element of a list parse_guac_keys returns is a pair (code, pressed)
\* with pressed 0 or 1; "<65>" alone gives the one pair (65, 1) and "<65:0>"
\* the one pair (65, 0)
C7_EventsArePairs ==
    (last.op = "parse_guac_keys" /\ last.out.kind = "ok") =>
        /\ \A i \in 1..Len(last.out.val) :
              Len(last.out.val[i]) = 2 /\ last.out.val[i][2] \in {0, 1}
        /\ last.arg = <<"<", "6", "5", ">">> => last.out.val = <<<<65, 1>>>>
        /\ last.arg = <<"<", "6", "5", ":", "0", ">">> => last.out.val = <<<<65, 0>>>>

C9_SecondCallFromCache ==
    (/\ last.op \in {"guac_msg", "unguac_msg", "parse_guac_keys"}
     /\ last.arg \in DOMAIN last.before
     /\ last.swept = last.before) => (~last.computed /\ last.out = Ok(last.before[last.arg]))

\* C10: a call of guac_msg, of unguac_msg on a non-empty str, and every call of
\* parse_guac_keys, the nested ones included, empties its memo dict when the
\* dict holds more than max-cache entries as the call begins and otherwise
\* leaves every entry in it; between these tests entries are only added
C10_Eviction ==
    LET Swept(d) == IF DictSize(d) > CONFIG["max-cache"] THEN EmptyDict ELSE d
        Within(d, e) == \A k \in DOMAIN d : k \in DOMAIN e /\ e[k] = d[k]
        calls == last.calls
    IN /\ last.op = "guac_msg" =>
              last.swept = Swept(last.before) /\ Within(last.swept, GUAC_CACHE["guac"])
       /\ (last.op = "unguac_msg" /\ last.arg # <<>>) =>
              last.swept = Swept(last.before) /\ Within(last.swept, GUAC_CACHE["unguac"])
       /\ last.op = "parse_guac_keys" =>
              /\ calls[1].before = last.before
              /\ \A i \in 1..Len(calls) : calls[i].swept = Swept(calls[i].before)
              /\ \A i \in 1..(Len(calls) - 1) : Within(calls[i].swept, calls[i + 1].before)
              /\ Within(calls[Len(calls)].swept, GUAC_CACHE["guac-keys"])

\* a nested compile found more than max-cache entries, one at least, and
\* emptied the dict; the entries its caller had kept went with them
C10_Witness ==
    /\ last.op = "parse_guac_keys"
    /\ \E i \in 2..Len(last.calls) :
          /\ DictSize(last.calls[i].before) > CONFIG["max-cache"]
          /\ last.calls[i].before # EmptyDict
          /\ last.calls[i].swept = EmptyDict
    /\ last.calls[1].swept = last.before
    /\ last.before # EmptyDict

\* C11: decoding the frame that guac_msg made of no field at all returns the
\* empty list, not None
C11_EmptyRoundTrip ==
    (/\ last.op = "unguac_msg"
     /\ <<>> \in DOMAIN GUAC_CACHE["guac"]
     /\ last.arg = GUAC_CACHE["guac"][<<>>]) => last.out = Ok(<<>>)

\* C12: unguac_msg returns None, which is not the empty list, for a string
\* that, after no field or one well-formed field and its ",", has a non-digit
\* where a length begins, or a digit run followed by a character other than
\* ".", or a field's content followed by a character other than "," and ";"
C12_ViolationIsFailure ==
    LET m == last.arg
        Unit(f) == StrOfNat(Len(f)) \o <<".">> \o f \o <<",">>
        Prefixes == {<<>>} \cup {Unit(f) : f \in {<<>>, <<"a">>, <<";">>, <<",">>, <<"1">>}}
        BadLength(r) == Len(r) >= 1 /\ ~isdecimal(r[1])
        BadDot(r) ==
            \E k \in 1..(Len(r) - 1) :
                AllDecimal(SubSeq(r, 1, k)) /\ ~isdecimal(r[k + 1]) /\ r[k + 1] # "."
        BadEnd(r) ==
            \E k \in 1..(Len(r) - 1) :
                /\ AllDecimal(SubSeq(r, 1, k)) /\ r[k + 1] = "."
                /\ k + 2 + DigitsValue(SubSeq(r, 1, k)) <= Len(r)
                /\ r[k + 2 + DigitsValue(SubSeq(r, 1, k))] \notin {",", ";"}
        Violates ==
            \E p \in Prefixes :
                /\ Len(p) <= Len(m) /\ SubSeq(m, 1, Len(p)) = p
                /\ LET r == SubSeq(m, Len(p) + 1, Len(m))
                   IN BadLength(r) \/ BadDot(r) \/ BadEnd(r)
    IN (last.op = "unguac_msg" /\ Violates) => (last.out = None /\ last.out # Ok(<<>>))

\* after the field "a" and its ",", the content of a second field was followed
\* by "b": the decode returned None and not the field read before
C12_Witness ==
    /\ last.op = "unguac_msg"
    /\ last.arg = <<"1", ".", "a", ",", "1", ".", "a", "b">>
    /\ last.computed
    /\ last.out = None

\* C13: unguac_msg("") returns the empty list whatever GUAC_CACHE["unguac"]
\* holds, and leaves that dict as it is
C13_EmptyStringDecodes ==
    (last.op = "unguac_msg" /\ last.arg = <<>>) =>
        (last.out = Ok(<<>>) /\ GUAC_CACHE["unguac"] = last.before)

\* the empty str was decoded while the dict held more than max-cache entries
C13_Witness ==
    /\ last.op = "unguac_msg"
    /\ last.arg = <<>>
    /\ DictSize(last.before) > CONFIG["max-cache"]
    /\ DictSize(last.before) >= 2
    /\ last.out = Ok(<<>>)

\* C14: guac_msg(f1, .., fn) returns "<len(f1)>.<f1>,..,<len(fn)>.<fn>;", with
\* one ";" at the end and the lengths counted in characters, on every call,
\* whatever GUAC_CACHE["guac"] holds
C14_EncodeFormat ==
    LET Piece(f) == StrOfNat(Len(f)) \o <<".">> \o f
        RECURSIVE Frame(_)
        Frame(fs) ==
            IF Len(fs) = 0 THEN <<";">>
            ELSE IF Len(fs) = 1 THEN Piece(fs[1]) \o <<";">>
            ELSE Piece(fs[1]) \o <<",">> \o Frame(Tail(fs))
    IN last.op = "guac_msg" => last.out = Ok(Frame(last.arg))

\* three fields, one of them empty and one of ten characters, were encoded a
\* second time, with the first frame still in the dict
C14_Witness ==
    /\ last.op = "guac_msg"
    /\ Len(last.arg) = 3
    /\ last.arg[1] = <<";", ",">>
    /\ last.arg \in DOMAIN last.before
    /\ last.swept = last.before
    /\ last.out = Ok(<<"2", ".", ";", ",", ",", "0", ".", ",", "1", "0", ".",
                       "0", "1", "2", "3", "4", "5", "6", "7", "8", "9", ";">>)

\* C15: a compile of a macro whose repeat group or manual event has malformed
\* digits (a character that is neither a digit nor ":" in any segment, or an
\* empty number) returns an error str and does not raise
C15_BadNumberIsError ==
    LET CleanStarts == {s \in Starts : \A i \in 1..Len(s) : s[i] # "@"}
        BadMacros == {s \o t : s \in CleanStarts, t \in BadNumberTokens}
    IN (last.op = "parse_guac_keys" /\ last.arg \in BadMacros) => last.out.kind = "err"

\* C16: for a reference @name; a name missing from CONFIG["keys"] gives an
\* error str; a combo that compiles has its events spliced between those of the
\* tokens before and after the reference; a combo that does not compile makes
\* the outer compile return an error str
C16_ComboSpliced ==
    LET Ref(n) == <<"@">> \o n \o <<";">>
        Ev(s) == IF s = <<>> THEN <<>> ELSE <<<<ord(s[1]), 1>>, <<ord(s[1]), 0>>>>
    IN \A pre \in {<<>>, <<"a">>}, n \in {<<"a">>, <<"b">>, <<"z">>}, post \in {<<>>, <<"a">>} :
         (last.op = "parse_guac_keys" /\ last.arg = pre \o Ref(n) \o post) =>
            IF n \notin DOMAIN CONFIG["keys"] THEN last.out.kind = "err"
            ELSE \A combo \in {parse_guac_keys(CONFIG["keys"][n], EmptyDict, CONFIG, 1).out} :
                   IF combo.kind = "ok"
                   THEN last.out = Ok(Ev(pre) \o combo.val \o Ev(post))
                   ELSE last.out.kind = "err"

\* C17: for X in GUAC_KEYS_SPECIAL_MAPPING["escape"], "\X" appends the one event
\* (key, 1), "!X" the one event (key, 0), "|X" the events (key, 1), (key, 0); for
\* any other X each of the three returns an error str
C17_EscapeEvents ==
    LET escape == GUAC_KEYS_SPECIAL_MAPPING["escape"]
        Ev(s) == IF s = <<>> THEN <<>> ELSE <<<<ord(s[1]), 1>>, <<ord(s[1]), 0>>>>
        Emits(p, k) == CASE p = "\\" -> <<<<k, 1>>>>
                         [] p = "!" -> <<<<k, 0>>>>
                         [] p = "|" -> <<<<k, 1>>, <<k, 0>>>>
    IN \A pre \in {<<>>, <<"a">>}, p \in {"\\", "!", "|"}, X \in {"n", "e", "c", ")", "x"} :
         (last.op = "parse_guac_keys" /\ last.arg = pre \o <<p, X>>) =>
            IF X \in DOMAIN escape THEN last.out = Ok(Ev(pre) \o Emits(p, escape[X]))
            ELSE last.out.kind = "err"

C17_Witness ==
    /\ last.op = "parse_guac_keys" /\ last.arg = <<"a", "\\", "n">> /\ last.computed
    /\ last.out = Ok(<<<<97, 1>>, <<97, 0>>, <<65293, 1>>>>)

\* C18: a macro made only of plain characters and of "^X" tokens compiles to the
\* events of its tokens in source order: (ord(c), 1), (ord(c), 0) for a plain
\* character c, and (CTRL, 1), (ord(X), 1), (ord(X), 0), (CTRL, 0) for "^X",
\* whatever character X is
C18_PlainAndCtrl ==
    LET RECURSIVE OnlyPlainCtrl(_)
        OnlyPlainCtrl(s) ==
            IF s = <<>> THEN TRUE
            ELSE IF s[1] = "^" THEN Len(s) >= 2 /\ OnlyPlainCtrl(SubSeq(s, 3, Len(s)))
            ELSE s[1] \notin special_chars /\ OnlyPlainCtrl(Tail(s))
        RECURSIVE Events(_)
        Events(s) ==
            IF s = <<>> THEN <<>>
            ELSE IF s[1] = "^"
            THEN <<<<65507, 1>>, <<ord(s[2]), 1>>, <<ord(s[2]), 0>>, <<65507, 0>>>>
                 \o Events(SubSeq(s, 3, Len(s)))
            ELSE <<<<ord(s[1]), 1>>, <<ord(s[1]), 0>>>> \o Events(Tail(s))
    IN (last.op = "parse_guac_keys" /\ OnlyPlainCtrl(last.arg)) => last.out = Ok(Events(last.arg))

C18_Witness ==
    /\ last.op = "parse_guac_keys" /\ last.arg = <<"a", "b", "^", "c">> /\ last.computed
    /\ last.out = Ok(<<<<97, 1>>, <<97, 0>>, <<98, 1>>, <<98, 0>>,
                       <<65507, 1>>, <<99, 1>>, <<99, 0>>, <<65507, 0>>>>)

\* C19 as first stated: "(ab){2:2}" compiles to a-down, a-up, b-down, b-up
\* followed by six more events, repetitions of the last two of those
C19_SixTrailing ==
    LET base == <<<<97, 1>>, <<97, 0>>, <<98, 1>>, <<98, 0>>>>
        pair == <<<<98, 1>>, <<98, 0>>>>
    IN (last.op = "parse_guac_keys" /\ last.arg = <<"(", "a", "b", ")", "{", "2", ":", "2", "}">>)
          => last.out = Ok(base \o pair \o pair \o pair)

\* C19: "(ab){2:2}" compiles to a-down, a-up, b-down, b-up followed by the last
\* two of those events twice: four events appended, eight in all
C19_FourTrailing ==
    LET base == <<<<97, 1>>, <<97, 0>>, <<98, 1>>, <<98, 0>>>>
        pair == <<<<98, 1>>, <<98, 0>>>>
    IN (last.op = "parse_guac_keys" /\ last.arg = <<"(", "a", "b", ")", "{", "2", ":", "2", "}">>)
          => last.out = Ok(base \o pair \o pair)

C19_Witness ==
    /\ last.op = "parse_guac_keys" /\ last.computed
    /\ last.arg = <<"(", "a", "b", ")", "{", "2", ":", "2", "}">>
    /\ last.out.kind = "ok" /\ Len(last.out.val) = 8
    /\ SubSeq(last.out.val, 5, 8) = <<<<98, 1>>, <<98, 0>>, <<98, 1>>, <<98, 0>>>>

\* C20: when the compile of the macro given to cmd_keys does not end in events,
\* cmd_keys returns one str, a chat instruction, and no tuple of key
\* instructions; when the compile returned a reason, the chat text carries it
C20_ErrorIsOneChat ==
    LET Compiled == parse_guac_keys(Join(<<" ">>, last.arg), last.before, CONFIG, 1).out
        ChatOf(text) == <<"4", ".", "c", "h", "a", "t", ",">> \o StrOfNat(Len(text)) \o <<".">>
                           \o text \o <<";">>
    IN (last.op = "cmd_keys" /\ Compiled.kind # "ok") =>
          /\ last.out.kind = "ok"
          /\ SubSeq(last.out.val, 1, 7) = <<"4", ".", "c", "h", "a", "t", ",">>
          /\ Compiled.kind = "err" =>
                \E user \in Users : last.out.val = ChatOf(<<"@">> \o user \o <<" ">> \o Compiled.msg)

\* C22: after any sequence of guac_msg, unguac_msg and parse_guac_keys calls each
\* of the three dicts of GUAC_CACHE holds at most CONFIG["max-cache"] + 1
\* entries, the macro dict included when macros name combos
C22_BoundedMemory ==
    \A n \in {"guac", "unguac", "guac-keys"} : DictSize(GUAC_CACHE[n]) <= CONFIG["max-cache"] + 1

\* C23: the events spliced in for @name; are those that CONFIG["keys"][name]
\* compiles to on its own, whatever the macro emitted before the reference: a
\* repeat group inside the combo replays events of the combo only
C23_ComboOnItsOwn ==
    LET CleanStarts == {s \in Starts : \A i \in 1..Len(s) : s[i] # "@"}
    IN \A pre \in CleanStarts, n \in {<<"a">>, <<"b">>} :
         (/\ last.op = "parse_guac_keys" /\ last.arg = pre \o <<"@">> \o n \o <<";">>
          /\ n \in DOMAIN last.keys /\ last.out.kind = "ok")
         => \A before \in {Uncached(pre, CONFIG, 1)}, combo \in {Uncached(CONFIG["keys"][n], CONFIG, 1)} :
               /\ before.kind = "ok" /\ combo.kind = "ok"
               /\ last.out.val = before.val \o combo.val

C23_Witness ==
    /\ last.op = "parse_guac_keys" /\ last.computed
    /\ last.arg = <<"a", "b", "@", "a", ";">>
    /\ <<"a">> \in DOMAIN CONFIG["keys"] /\ CONFIG["keys"][<<"a">>] = <<"x", "{", "3", "}">>
    /\ last.out = Ok(<<<<97, 1>>, <<97, 0>>, <<98, 1>>, <<98, 0>>,
                       <<120, 1>>, <<120, 0>>, <<120, 1>>, <<120, 0>>>>)

\* C24: no failure is stored: every entry of the "unguac" dict is a string with
\* the fields it decodes to and every entry of the "guac-keys" dict is a macro
\* with the events it compiles to, and a call that failed has left no entry for
\* its input, so the input is evaluated again
C24_NoFailureStored ==
    /\ \A msg \in DOMAIN GUAC_CACHE["unguac"] :
          \A r \in {unguac_msg(msg, EmptyDict, CONFIG["max-cache"]).out} :
             r.kind = "ok" /\ GUAC_CACHE["unguac"][msg] = r.val
    /\ \A keys \in DOMAIN GUAC_CACHE["guac-keys"] :
          \A r \in {Uncached(keys, CONFIG, 1)} :
             r.kind = "ok" /\ GUAC_CACHE["guac-keys"][keys] = r.val
    /\ (last.op = "unguac_msg" /\ last.out.kind # "ok")
          => last.computed /\ last.arg \notin DOMAIN GUAC_CACHE["unguac"]
    /\ (last.op = "parse_guac_keys" /\ last.out.kind # "ok")
          => last.computed /\ last.arg \notin DOMAIN GUAC_CACHE["guac-keys"]

\* a compile that failed after its combo compiled has left the combo's entry
C24_Witness ==
    /\ last.op = "parse_guac_keys" /\ last.arg = <<"@", "a", ";", "\\", "x">>
    /\ last.out.kind = "err"
    /\ last.before = EmptyDict
    /\ DOMAIN GUAC_CACHE["guac-keys"] = {<<"x">>}
    /\ GUAC_CACHE["guac-keys"][<<"x">>] = <<<<120, 1>>, <<120, 0>>>>

\* C25: unguac_msg stops at the ";" after a field and reads nothing beyond it:
\* the frame guac_msg made of a non-empty sequence of fields, followed by any
\* string, decodes to those fields
C25_TrailingIgnored ==
    last.op = "unguac_msg" =>
        \A args \in DOMAIN GUAC_CACHE["guac"] :
            \A frame \in {GUAC_CACHE["guac"][args]} :
                (/\ Len(args) >= 1 /\ Len(frame) <= Len(last.arg)
                 /\ SubSeq(last.arg, 1, Len(frame)) = frame) => last.out = Ok(args)

\* the frame of the fields ";" and "," followed by ";a" was decoded
C25_Witness ==
    /\ last.op = "unguac_msg" /\ last.computed
    /\ last.arg = <<"1", ".", ";", ",", "1", ".", ",", ";", ";", "a">>
    /\ last.out = Ok(<<<<";">>, <<",">>>>)

\* C26: a macro made only of plain characters and of "^X", "|X", "~X", "[N]" and
\* "(text)" tokens that compiles leaves no key held down: in every prefix of its
\* events each key code has been pressed at least as often as released, and
\* over all its events as often
C26_NoKeyHeld ==
    LET BalancedStarts == {<<>>, <<"a">>, <<"a", "b">>, <<"^", "c">>, <<"(", "a", "b", ")">>}
        BalancedTokens ==
            {<<"a">>, <<"^", "c">>, <<"^", "^">>, <<"|", "n">>, <<"|", "c">>, <<"~", "d">>,
             <<"[", "1", "]">>, <<"[", "1", "2", "]">>, <<"(", "a", "b", ")">>, <<"(", ")">>}
        ev == last.out.val
        Count(code, state, k) == Cardinality({i \in 1..k : ev[i] = <<code, state>>})
    IN (/\ last.op = "parse_guac_keys" /\ last.out.kind = "ok"
        /\ \E s \in BalancedStarts, t \in BalancedTokens : last.arg = s \o t)
       => \A j \in 1..Len(ev) :
             /\ \A k \in 0..Len(ev) : Count(ev[j][1], 1, k) >= Count(ev[j][1], 0, k)
             /\ Count(ev[j][1], 1, Len(ev)) = Count(ev[j][1], 0, Len(ev))

\* "^c" after "^c": CTRL and c are each pressed and released twice
C26_Witness ==
    /\ last.op = "parse_guac_keys" /\ last.computed
    /\ last.arg = <<"^", "c", "^", "c">>
    /\ last.out = Ok(<<<<65507, 1>>, <<99, 1>>, <<99, 0>>, <<65507, 0>>,
                       <<65507, 1>>, <<99, 1>>, <<99, 0>>, <<65507, 0>>>>)

\* C27: a call of guac_msg changes the "guac" dict only, a call of unguac_msg
\* the "unguac" dict only and a call of parse_guac_keys, with its nested calls,
\* the "guac-keys" dict only, also when the call flushes its dict
C27_IndependentCaches ==
    [][/\ last'.op = "guac_msg" =>
             /\ GUAC_CACHE'["unguac"] = GUAC_CACHE["unguac"]
             /\ GUAC_CACHE'["guac-keys"] = GUAC_CACHE["guac-keys"]
       /\ last'.op = "unguac_msg" =>
             /\ GUAC_CACHE'["guac"] = GUAC_CACHE["guac"]
             /\ GUAC_CACHE'["guac-keys"] = GUAC_CACHE["guac-keys"]
       /\ last'.op = "parse_guac_keys" =>
             /\ GUAC_CACHE'["guac"] = GUAC_CACHE["guac"]
             /\ GUAC_CACHE'["unguac"] = GUAC_CACHE["unguac"]]_vars

\* a call of guac_msg has flushed its dict and the other two still have entries
C27_Witness ==
    /\ last.op = "guac_msg"
    /\ last.before # EmptyDict /\ last.swept = EmptyDict
    /\ GUAC_CACHE["unguac"] # EmptyDict
    /\ DictSize(GUAC_CACHE["guac-keys"]) >= 2

\* C30: when main() has answered "log <user> out <key>" with "@<user> you have
\* been logged out", that user is not in AUTH["users"]
C30_LoggedOutIsOut ==
    \A user \in SessionUsers :
        (/\ ws.handler = "cmd_log"
         /\ ws.sent = <<GuacFormat(<<chat, <<"@">> \o user \o <<" ", "y", "o", "u", " ", "h", "a", "v", "e", " ", "b", "e", "e", "n", " ", "l", "o", "g", "g", "e", "d", " ", "o", "u", "t">>>>)>>)
            => user \notin AUTH.users

\* C21: when unguac_msg fails on the inbound message (it returns None or
\* raises), or the keys command was called and parse_guac_keys fails on its
\* macro (it returns an error str or raises), main() sends one chat instruction
\* and its loop stays open for the next message
C21_FailureNotFatal ==
    LET DecodeFailed == ws.parsed.kind \in {"none", "raise"}
        CompileFailed ==
            /\ ws.handler = "cmd_keys"
            /\ \E user \in SessionUsers, text \in SaidByU \cup SaidByV :
                  /\ ws.recv = ChatFrame(user, text)
                  /\ Uncached(Join(<<" ">>, Rest(Rest(Words(text)))), CONFIG, 1).kind
                        \in {"err", "raise"}
    IN (ws.n > 0 /\ (DecodeFailed \/ CompileFailed))
          => /\ ws.status = "open"
             /\ Len(ws.sent) = 1
             /\ startswith(ws.sent[1], <<"4", ".", "c", "h", "a", "t", ",">>)

\* C28: when the keys command was called with a macro that parse_guac_keys
\* compiles to the events e1..en, main() sent exactly n frames in that turn of
\* its loop, the i-th being guac_msg("key", str(code of ei), str(state of ei))
C28_KeysSentInOrder ==
    \A user \in SessionUsers, text \in SaidByU \cup SaidByV :
        LET events == Uncached(Join(<<" ">>, Rest(Rest(Words(text)))), CONFIG, 1)
        IN (/\ ws.handler = "cmd_keys"
            /\ ws.recv = ChatFrame(user, text)
            /\ Len(Words(text)) > 2
            /\ events.kind = "ok")
              => /\ Len(ws.sent) = Len(events.val)
                 /\ \A i \in 1..Len(events.val) :
                       ws.sent[i] = GuacFormat(<<<<"k", "e", "y">>, str(events.val[i][1]),
                                                 str(events.val[i][2])>>)

=============================================================================
